---- MODULE Spec2Model ----
(***************************************************************************)
(* Exchange announcement monitor (EAM): the bounded-retry request wrapper  *)
(* retry_request of utils/mod.rs, the per-exchange polling loop            *)
(* ExchangeMonitor::run of exchanges/monitor.rs and the supervisor of      *)
(* main.rs.                                                                *)
(*                                                                         *)
(* Time is counted in units of TimeUnitMs milliseconds.  A u64 number of   *)
(* milliseconds is kept as a record [m, e] standing for m * 2^e, with m    *)
(* odd (or m = 0 and e = 0), because the values of a u64 do not fit the    *)
(* integers of the model checker; the only arithmetic the code does on it  *)
(* is a doubling.                                                          *)
(***************************************************************************)
EXTENDS Integers, Sequences, FiniteSets, TLC

VARIABLES
    rr,               \* the running call of retry_request (its locals and position)
    overflow_checks,  \* build profile: TRUE when arithmetic overflow panics (debug)
    config,           \* Config: default interval, per-exchange intervals, allow-list
    main_pc,          \* position of main: "idle", "spawn", "join" or "exit"
    next_monitor,     \* index in all_monitors of the monitor main handles next
    tasks,            \* the JoinSet: exchanges whose task was spawned and not joined
    main_log,         \* records logged by main, in order
    unit,             \* per exchange: the task running ExchangeMonitor::run
    log,              \* per exchange: records logged by run in the current cycle
    proxy_env,        \* the environment variables PROXY, PORT_RANGE and SYSTEM_PROXY
    PROXY_CONFIG,     \* the lazily built ProxyConfig, or NoProxyConfig
    current_index,    \* ProxyConfig.current_index, the rotation cursor
    callers,          \* per caller: the proxy function it is in and what it got
    rotation,         \* the calls of next_proxy_url, in the order of their fetch_add
    proxy_calls,      \* number of proxy functions called so far
    xr,               \* the call of extract_response_data
    ann,              \* the Announcement being classified
    ad                \* the call of an adapter's fetch_announcements

proxyVars == <<proxy_env, PROXY_CONFIG, current_index, callers, rotation, proxy_calls>>

libVars == <<proxyVars, xr, ann, ad>>

vars == <<rr, overflow_checks, config, main_pc, next_monitor, tasks, main_log, unit, log,
          libVars>>

supervisorVars == <<config, main_pc, next_monitor, tasks, main_log>>

unitVars == <<unit, log>>

(***************************************************************************)
(* Bounds of the model.                                                    *)
(***************************************************************************)
MaxAttempts == 3      \* largest max_retries handed to retry_request
MaxSleepUnits == 4    \* a sleep longer than this many time units is cut to it
MaxBacklog == 2       \* a tick more than this many time units overdue counts as this many
MaxAnnouncements == 1 \* most announcements one fetch returns

(***************************************************************************)
(* u64 milliseconds as m * 2^e.                                            *)
(***************************************************************************)
U64_BITS == 64

RECURSIVE BitLen(_)
BitLen(m) == IF m = 0 THEN 0 ELSE 1 + BitLen(m \div 2)

RECURSIVE Pow2(_)
Pow2(n) == IF n = 0 THEN 1 ELSE 2 * Pow2(n - 1)

RECURSIVE Norm(_)
Norm(d) ==
    IF d.m = 0 THEN [m |-> 0, e |-> 0]
    ELSE IF d.m % 2 = 0 THEN Norm([m |-> d.m \div 2, e |-> d.e + 1])
    ELSE d

\* The mathematical product d * 2^n, which may exceed a u64.
Shl(d, n) == Norm([m |-> d.m, e |-> d.e + n])

FitsU64(d) == BitLen(d.m) + d.e <= U64_BITS

\* d * 2 reduced modulo 2^64: what `delay_ms *= 2` leaves without overflow checks.
WrappingDouble(d) ==
    LET keep == U64_BITS - (d.e + 1)
        m1 == IF keep >= BitLen(d.m) THEN d.m ELSE d.m % Pow2(keep)
    IN  Norm([m |-> m1, e |-> d.e + 1])

Ms(n) == Norm([m |-> n, e |-> 0])

\* The initial delay the Binance adapter hands to retry_request; the model's
\* time unit.
BINANCE_INITIAL_DELAY_MS == 500

TimeUnitMs == BINANCE_INITIAL_DELAY_MS

\* Whole time units a tokio sleep of d milliseconds lasts (rounded up, cut at
\* MaxSleepUnits).
SleepUnits(d) ==
    IF d.m = 0 THEN 0
    ELSE IF d.e > 12 \/ d.m > 4096 THEN MaxSleepUnits
    ELSE LET ms == d.m * Pow2(d.e)
             u == (ms + TimeUnitMs - 1) \div TimeUnitMs
         IN  IF u > MaxSleepUnits THEN MaxSleepUnits ELSE u

(***************************************************************************)
(* retry_request (utils/mod.rs).                                           *)
(***************************************************************************)
TOO_MANY_REQUESTS == 429
FORBIDDEN == 403

Statuses == {200, 404, 500, TOO_MANY_REQUESTS, FORBIDDEN}

is_success(status) == status >= 200 /\ status <= 299

IsRetryableStatus(status) == status = TOO_MANY_REQUESTS \/ status = FORBIDDEN

NoError == [kind |-> "none"]
NoResult == [kind |-> "none"]

\* The error of the final `unwrap_or_else`: no attempt was made.
FailedAfter(n) == [kind |-> "failed_after", attempts |-> n]

\* The inputs the model hands to retry_request when it is studied on its own.
InitialDelays ==
    {Ms(0), Ms(1), Ms(500),
     [m |-> 1, e |-> 62], [m |-> 3, e |-> 62], [m |-> 1, e |-> 63]}

RetryIdle ==
    [pc |-> "idle", max_retries |-> 0, initial_delay_ms |-> Ms(0),
     delay_ms |-> Ms(0), last_error |-> NoError, attempt |-> 0,
     calls |-> 0, outcomes |-> <<>>, sleeps |-> <<>>, sleep_left |-> 0,
     result |-> NoResult]

\* Entry of retry_request: `let mut delay_ms = initial_delay_ms; let mut
\* last_error = None;` and the loop counter at its first value.
RetryEntered(max_retries, initial_delay_ms) ==
    [RetryIdle EXCEPT !.pc = "loop", !.max_retries = max_retries,
                      !.initial_delay_ms = initial_delay_ms,
                      !.delay_ms = initial_delay_ms]

\* A loop that runs once too often.
LoopContinues_OneMore(r) == r.attempt <= r.max_retries

\* `for attempt in 0..max_retries`: the loop goes on while attempt < max_retries.
LoopContinues(r) == r.attempt < r.max_retries

\* Head of the loop with an attempt left: the request factory is invoked.
request_fn ==
    /\ rr.pc = "loop"
    /\ LoopContinues(rr)
    /\ rr' = [rr EXCEPT !.pc = "inflight", !.calls = @ + 1]
    /\ UNCHANGED <<overflow_checks, libVars, supervisorVars, unitVars>>

\* The loop is over: `Err(last_error.unwrap_or_else(..))`.
retry_request_exhausted ==
    /\ rr.pc = "loop"
    /\ ~LoopContinues(rr)
    /\ rr' = [rr EXCEPT
                !.pc = "done",
                !.result = [kind |-> "err",
                            error |-> IF rr.last_error = NoError
                                      THEN FailedAfter(rr.max_retries)
                                      ELSE rr.last_error]]
    /\ UNCHANGED <<overflow_checks, libVars, supervisorVars, unitVars>>

\* A check that forgets 403.
ReturnsResponse_AnyButTooMany(status) ==
    is_success(status) \/ status # TOO_MANY_REQUESTS

\* A check that retries every non-2xx status.
ReturnsResponse_SuccessOnly(status) == is_success(status)

\* Whether a response is handed back to the caller (lines 264-281): a success,
\* or any status other than the two retried ones.
ReturnsResponse(status) == is_success(status) \/ ~IsRetryableStatus(status)

\* An error slot that keeps the first error.
RecordError_KeepFirst(last_error, e) == IF last_error = NoError THEN e ELSE last_error

\* `last_error = Some(..)`: the error of this attempt replaces the earlier one.
RecordError(last_error, e) == e

\* `tokio::time::sleep(Duration::from_millis(delay_ms))` begins.
StartSleep(r) ==
    [r EXCEPT !.pc = "sleep",
              !.sleeps = Append(@, [after |-> r.attempt + 1, dur |-> r.delay_ms]),
              !.sleep_left = SleepUnits(r.delay_ms)]

\* Ok(response): returned to the caller, or (429, 403) recorded and slept on.
response_received(status) ==
    /\ rr.pc = "inflight"
    /\ LET response == [status |-> status, attempt |-> rr.attempt + 1]
           seen == [rr EXCEPT !.outcomes = Append(@, [kind |-> "response", status |-> status])]
       IN  IF ReturnsResponse(status)
           THEN rr' = [seen EXCEPT !.pc = "done",
                                   !.result = [kind |-> "ok", response |-> response]]
           ELSE rr' = StartSleep([seen EXCEPT
                         !.last_error = RecordError(rr.last_error,
                                            [kind |-> "status", status |-> status,
                                             attempt |-> rr.attempt + 1])])
    /\ UNCHANGED <<overflow_checks, libVars, supervisorVars, unitVars>>

\* `if attempt < max_retries - 1`: a transport error is slept on unless the
\* attempt was the last one.
SleepsAfterError(r) == r.attempt < r.max_retries - 1

\* Err(e): the request failed in transport (connection, timeout).
request_error ==
    /\ rr.pc = "inflight"
    /\ LET seen == [rr EXCEPT
                      !.outcomes = Append(@, [kind |-> "transport"]),
                      !.last_error = RecordError(rr.last_error,
                                         [kind |-> "transport", attempt |-> rr.attempt + 1])]
       IN  IF SleepsAfterError(rr)
           THEN rr' = StartSleep(seen)
           ELSE rr' = [seen EXCEPT !.pc = "loop", !.attempt = @ + 1]
    /\ UNCHANGED <<overflow_checks, libVars, supervisorVars, unitVars>>

\* A backoff that never grows.
DoubledDelay_NoBackoff(d) == d

\* `delay_ms *= 2` on a u64: the product when it fits, else the wrapped value.
DoubledDelay(d) == IF FitsU64(Shl(d, 1)) THEN Shl(d, 1) ELSE WrappingDouble(d)

\* The sleep is over: `delay_ms *= 2`, then the next iteration.  With overflow
\* checks the multiplication panics when the product does not fit a u64.
sleep_done ==
    /\ rr.pc = "sleep"
    /\ rr.sleep_left = 0
    /\ IF overflow_checks /\ ~FitsU64(Shl(rr.delay_ms, 1))
       THEN rr' = [rr EXCEPT !.pc = "panic"]
       ELSE rr' = [rr EXCEPT !.pc = "loop", !.delay_ms = DoubledDelay(@),
                             !.attempt = @ + 1]
    /\ UNCHANGED <<overflow_checks, libVars, supervisorVars, unitVars>>

\* The steps of retry_request, the responses having a status of S.
RetryStep(S) ==
    \/ request_fn
    \/ retry_request_exhausted
    \/ \E status \in S : response_received(status)
    \/ request_error
    \/ sleep_done

(***************************************************************************)
(* Config (config/mod.rs).                                                 *)
(***************************************************************************)
\* create_exchange_monitors: the monitors in the order main walks them (the
\* first two of the twelve).
all_monitors == <<"Binance", "OKX">>

Exchanges == {all_monitors[i] : i \in 1..Len(all_monitors)}

\* Configurations the model starts from.
IntervalSeconds == {0, 1}

AllowLists == {<<>>, <<"Binance">>, <<"OKX">>, <<"binance">>}

\* The per-exchange intervals: none, or a zero interval for one exchange.
IntervalMaps == {[e \in S |-> 0] : S \in {{}} \cup {{e} : e \in Exchanges}}

Configs ==
    [default_polling_interval : IntervalSeconds,
     exchange_intervals : IntervalMaps,
     enabled_exchanges : AllowLists]

get_polling_interval(cfg, exchange_name) ==
    IF exchange_name \in DOMAIN cfg.exchange_intervals
    THEN cfg.exchange_intervals[exchange_name]
    ELSE cfg.default_polling_interval

should_monitor_exchange(cfg, exchange_name) ==
    \/ cfg.enabled_exchanges = <<>>
    \/ \E i \in 1..Len(cfg.enabled_exchanges) : cfg.enabled_exchanges[i] = exchange_name

(***************************************************************************)
(* ExchangeMonitor::run (exchanges/monitor.rs): one task per exchange.     *)
(***************************************************************************)
\* The period of tokio::time::interval in time units.
Period(u) == (unit[u].interval_seconds * 1000) \div TimeUnitMs

NoTask ==
    [pc |-> "none", interval_seconds |-> 0, timer |-> 0, since |-> 0,
     open |-> 0, result |-> NoResult]

\* Adapters whose fetch_announcements goes through retry_request (binance.rs:120);
\* the others send one request on their own client (okx.rs:75).
UsesFetchCascade(u) == u = "Binance"

BINANCE_MAX_RETRIES == 3

FlagSeqs == UNION {[1..n -> BOOLEAN] : n \in 0..MaxAnnouncements}

\* What fetch_announcements returns: the announcements (each reduced to its
\* is_new_listing flag) or an error.
FetchResults ==
    {[kind |-> "err"]} \cup {[kind |-> "ok", announcements |-> a] : a \in FlagSeqs}

\* Start of run: the start is logged, then tokio::time::interval panics on a
\* zero period (its first deadline is now).
run_start(u) ==
    /\ unit[u].pc = "start"
    /\ log' = [log EXCEPT ![u] = <<[kind |-> "starting", exchange |-> u]>>]
    /\ unit' = [unit EXCEPT ![u].pc = IF unit[u].interval_seconds = 0
                                      THEN "panicked" ELSE "wait",
                            ![u].timer = 0]
    /\ UNCHANGED <<rr, overflow_checks, libVars, supervisorVars>>

\* A tick that fires whenever the deadline has come, cycle finished or not.
TickReady_IgnoresCycle(u) ==
    unit[u].pc \in {"wait", "fetching", "reporting"} /\ unit[u].timer <= 0

\* A tick that waits until no other unit is fetching.
TickReady_OneAtATime(u) ==
    /\ unit[u].pc = "wait"
    /\ unit[u].timer <= 0
    /\ \A v \in Exchanges \ {u} : unit[v].pc # "fetching"

\* `interval.tick().await` completes: the unit is at the await and the deadline
\* has come.
TickReady(u) == unit[u].pc = "wait" /\ unit[u].timer <= 0

\* A loop that takes two ticks of the interval per cycle.
NextDeadline_TwoPeriods(timer, period) == timer + 2 * period

\* The next deadline is one period after the deadline that fired (tokio's
\* default MissedTickBehavior::Burst), not after now.
NextDeadline(timer, period) == timer + period

\* A tick: the fetch is logged and fetch_announcements called.
tick(u) ==
    /\ TickReady(u)
    /\ unit' = [unit EXCEPT ![u].pc = "fetching",
                            ![u].timer = NextDeadline(@, Period(u)),
                            ![u].since = 0,
                            ![u].open = @ + 1]
    /\ log' = [log EXCEPT ![u] = <<[kind |-> "fetching", exchange |-> u]>>]
    /\ rr' = IF UsesFetchCascade(u)
             THEN RetryEntered(BINANCE_MAX_RETRIES, Ms(BINANCE_INITIAL_DELAY_MS))
             ELSE rr
    /\ UNCHANGED <<overflow_checks, libVars, supervisorVars>>

\* binance.rs:138-247: retry_request has returned.  An error ends the fetch;
\* a response is parsed and the content of each item fetched.
cascade_returned(u) ==
    /\ UsesFetchCascade(u)
    /\ unit[u].pc = "fetching"
    /\ rr.pc \in {"done", "panic"}
    /\ unit' = [unit EXCEPT
                  ![u].pc = IF rr.pc = "panic" THEN "panicked"
                            ELSE IF rr.result.kind = "err" THEN "reporting"
                            ELSE "processing",
                  ![u].result = IF rr.pc = "done" /\ rr.result.kind = "err"
                                THEN [kind |-> "err"] ELSE NoResult]
    /\ rr' = RetryIdle
    /\ UNCHANGED <<overflow_checks, libVars, supervisorVars, log>>

\* fetch_announcements returns: for an adapter with its own client, the
\* request has been answered or has failed; for Binance, the response has been
\* processed.
fetch_returned(u, result) ==
    /\ \/ ~UsesFetchCascade(u) /\ unit[u].pc = "fetching"
       \/ UsesFetchCascade(u) /\ unit[u].pc = "processing"
    /\ unit' = [unit EXCEPT ![u].pc = "reporting", ![u].result = result]
    /\ UNCHANGED <<rr, overflow_checks, libVars, supervisorVars, log>>

RECURSIVE NewListings(_, _, _)
NewListings(u, a, i) ==
    IF i > Len(a) THEN <<>>
    ELSE (IF a[i] THEN <<[kind |-> "new_listing", exchange |-> u, item |-> i]>> ELSE <<>>)
         \o NewListings(u, a, i + 1)

\* A count of all the announcements, flagged or not.
CountTrue_All(a) == Len(a)

\* announcements.iter().filter(|a| a.is_new_listing).count()
CountTrue(a) == Cardinality({i \in 1..Len(a) : a[i]})

\* The records of one match arm of run (monitor.rs:28-62).
Report(u, result) ==
    IF result.kind = "ok"
    THEN <<[kind |-> "retrieved", exchange |-> u,
            total_announcements |-> Len(result.announcements),
            new_listings |-> CountTrue(result.announcements)]>>
         \o NewListings(u, result.announcements, 1)
    ELSE <<[kind |-> "failed", exchange |-> u]>>

\* A loop that ends on a failed fetch (`?` on the result).
report_EndsOnError(u) ==
    /\ unit[u].pc = "reporting"
    /\ log' = [log EXCEPT ![u] = @ \o Report(u, unit[u].result)]
    /\ unit' = [unit EXCEPT ![u].pc = IF unit[u].result.kind = "err"
                                      THEN "returned" ELSE "wait",
                            ![u].result = NoResult,
                            ![u].open = @ - 1]
    /\ UNCHANGED <<rr, overflow_checks, libVars, supervisorVars>>

\* The match on the fetch's result: the records are logged and the loop goes
\* back to `interval.tick().await`.
report(u) ==
    /\ unit[u].pc = "reporting"
    /\ log' = [log EXCEPT ![u] = @ \o Report(u, unit[u].result)]
    /\ unit' = [unit EXCEPT ![u].pc = "wait",
                            ![u].result = NoResult,
                            ![u].open = @ - 1]
    /\ UNCHANGED <<rr, overflow_checks, libVars, supervisorVars>>

UnitStep(u) ==
    \/ run_start(u)
    \/ tick(u)
    \/ cascade_returned(u)
    \/ report(u)

(***************************************************************************)
(* main (main.rs): the supervisor.                                         *)
(***************************************************************************)
\* One iteration of `for monitor in all_monitors`: the monitor is skipped, or
\* its task spawned on the JoinSet.
main_spawn ==
    /\ main_pc = "spawn"
    /\ next_monitor <= Len(all_monitors)
    /\ LET exchange_name == all_monitors[next_monitor]
           interval == get_polling_interval(config, exchange_name)
       IN  IF ~should_monitor_exchange(config, exchange_name)
           THEN /\ main_log' = Append(main_log,
                                   [event |-> "skipping", exchange |-> exchange_name])
                /\ UNCHANGED <<tasks, unit>>
           ELSE /\ main_log' = Append(main_log,
                                   [event |-> "starting", exchange |-> exchange_name,
                                    interval_seconds |-> interval])
                /\ tasks' = tasks \cup {exchange_name}
                /\ unit' = [unit EXCEPT ![exchange_name] =
                              [NoTask EXCEPT !.pc = "start",
                                             !.interval_seconds = interval]]
    /\ next_monitor' = next_monitor + 1
    /\ main_pc' = IF next_monitor = Len(all_monitors) THEN "join" ELSE "spawn"
    /\ UNCHANGED <<rr, overflow_checks, libVars, config, log>>

Finished(u) == unit[u].pc \in {"panicked", "returned"}

\* A supervisor that spawns the task again.
main_join_Restarts(u) ==
    /\ main_pc = "join"
    /\ u \in tasks
    /\ Finished(u)
    /\ main_log' = Append(main_log, [event |-> "panicked"])
    /\ unit' = [unit EXCEPT ![u].pc = "start"]
    /\ UNCHANGED <<rr, overflow_checks, libVars, config, main_pc, next_monitor, tasks, log>>

\* `tasks.join_next().await` yields the result of a finished task: a panic is
\* logged as such, a return with the exchange's name.  The task is not
\* spawned again.
main_join(u) ==
    /\ main_pc = "join"
    /\ u \in tasks
    /\ Finished(u)
    /\ main_log' = Append(main_log,
                      IF unit[u].pc = "panicked"
                      THEN [event |-> "panicked"]
                      ELSE [event |-> "terminated", exchange |-> u])
    /\ tasks' = tasks \ {u}
    /\ unit' = [unit EXCEPT ![u].pc = "joined"]
    /\ UNCHANGED <<rr, overflow_checks, libVars, config, main_pc, next_monitor, log>>

\* A supervisor that returns as soon as one task has ended.
main_exit_OnFirstEnd ==
    /\ main_pc = "join"
    /\ tasks = {} \/ \E u \in tasks : Finished(u)
    /\ main_log' = Append(main_log, [event |-> "all_terminated"])
    /\ main_pc' = "exit"
    /\ UNCHANGED <<rr, overflow_checks, libVars, config, next_monitor, tasks, unit, log>>

\* join_next yields None: the JoinSet is empty, main logs and returns.
main_exit ==
    /\ main_pc = "join"
    /\ tasks = {}
    /\ main_log' = Append(main_log, [event |-> "all_terminated"])
    /\ main_pc' = "exit"
    /\ UNCHANGED <<rr, overflow_checks, libVars, config, next_monitor, tasks, unit, log>>

MainStep ==
    \/ main_spawn
    \/ \E u \in Exchanges : main_join(u)
    \/ main_exit

(***************************************************************************)
(* ProxyConfig and the client constructors (utils/mod.rs).  The cursor     *)
(* starts at 0 and is a usize; its wrap to 0 after 2^64 calls is beyond    *)
(* what a run reaches and is not modelled.                                 *)
(***************************************************************************)
MaxPort == 3          \* ports are 1..MaxPort
MaxProxyCalls == 4    \* proxy functions called in one run

Ports == 1..MaxPort

Callers == {"t1", "t2"}

\* One part of PORT_RANGE split at '-': whether it parses as a u16, and its value.
PortParts == {[ok |-> FALSE, v |-> 0]} \cup {[ok |-> TRUE, v |-> q] : q \in Ports}

\* The values of PORT_RANGE: unset, or its parts.
PortRanges ==
    {[set |-> FALSE, parts |-> <<>>]}
      \cup {[set |-> TRUE, parts |-> <<a>>] : a \in PortParts}
      \cup {[set |-> TRUE, parts |-> <<a, b>>] : a \in PortParts, b \in PortParts}

\* The values of SYSTEM_PROXY: unset, a URL reqwest::Proxy::all accepts, or a
\* string it rejects.
SystemProxies == {"unset", "url", "rejected"}

ProxyEnvs == [PROXY : BOOLEAN, PORT_RANGE : PortRanges, SYSTEM_PROXY : SystemProxies]

NoProxyEnv ==
    [PROXY |-> FALSE, PORT_RANGE |-> [set |-> FALSE, parts |-> <<>>],
     SYSTEM_PROXY |-> "unset"]

NoProxyConfig == [some |-> FALSE]

\* ProxyConfig::from_env.
from_env(env) ==
    IF ~env.PROXY THEN NoProxyConfig
    ELSE IF ~env.PORT_RANGE.set THEN NoProxyConfig
    ELSE LET parts == env.PORT_RANGE.parts IN
         IF Len(parts) # 2 THEN NoProxyConfig
         ELSE IF ~parts[1].ok \/ ~parts[2].ok THEN NoProxyConfig
         ELSE IF parts[1].v >= parts[2].v THEN NoProxyConfig
         ELSE [some |-> TRUE,
               port_range |-> <<parts[1].v, parts[2].v>>,
               system_proxy |-> env.SYSTEM_PROXY]

\* A port count that leaves the last port out.
port_count_Exclusive(cfg) == cfg.port_range[2] - cfg.port_range[1]

port_count(cfg) == (cfg.port_range[2] - cfg.port_range[1]) + 1

\* The port of next_proxy_url for the cursor value it fetched.
PortAt(cfg, current) == cfg.port_range[1] + (current % port_count(cfg))

\* A fetch_add whose update is lost.
AdvancedCursor_Lost(index) == index

\* current_index after fetch_add(1).
AdvancedCursor(index) == index + 1

\* A gen_range over 0..=port_count.
RandomIndices_Inclusive(cfg) == 0..port_count(cfg)

\* gen_range(0..port_count).
RandomIndices(cfg) == 0..(port_count(cfg) - 1)

NoClient == [bound |-> "none", port |-> 0]

CallerIdle == [pc |-> "idle", fn |-> "none", current |-> 0, result |-> NoClient]

CanCall(t) == callers[t].pc = "idle" /\ proxy_calls < MaxProxyCalls

\* Whether the constructor binds the system proxy (Proxy::all accepted it).
UsesSystemProxy(cfg) == cfg.some /\ cfg.system_proxy = "url"

\* The fetch_add of next_proxy_url, called on its own (fn = "next") or by
\* create_browser_client (fn = "browser") when it binds no system proxy.
fetch_add(t, fn) ==
    /\ CanCall(t)
    /\ PROXY_CONFIG.some
    /\ fn = "browser" => ~UsesSystemProxy(PROXY_CONFIG)
    /\ callers' = [callers EXCEPT ![t] =
                     [pc |-> "fetched", fn |-> fn, current |-> current_index,
                      result |-> NoClient]]
    /\ current_index' = AdvancedCursor(current_index)
    /\ rotation' = Append(rotation,
                          [caller |-> t, current |-> current_index,
                           port |-> PortAt(PROXY_CONFIG, current_index)])
    /\ proxy_calls' = proxy_calls + 1
    /\ UNCHANGED <<rr, overflow_checks, supervisorVars, unitVars,
                   proxy_env, PROXY_CONFIG, xr, ann, ad>>

\* next_proxy_url returns the URL of its port; create_browser_client binds it.
next_returned(t) ==
    /\ callers[t].pc = "fetched"
    /\ callers' = [callers EXCEPT ![t].pc = "idle",
                                  ![t].result =
                                      [bound |-> "port",
                                       port |-> PortAt(PROXY_CONFIG, callers[t].current)]]
    /\ UNCHANGED <<rr, overflow_checks, supervisorVars, unitVars,
                   proxy_env, PROXY_CONFIG, current_index, rotation, proxy_calls,
                   xr, ann, ad>>

\* random_proxy_url.
random_proxy_url(t) ==
    /\ CanCall(t)
    /\ PROXY_CONFIG.some
    /\ \E random_index \in RandomIndices(PROXY_CONFIG) :
          callers' = [callers EXCEPT ![t] =
                        [pc |-> "idle", fn |-> "random", current |-> 0,
                         result |-> [bound |-> "port",
                                     port |-> PROXY_CONFIG.port_range[1] + random_index]]]
    /\ proxy_calls' = proxy_calls + 1
    /\ UNCHANGED <<rr, overflow_checks, supervisorVars, unitVars,
                   proxy_env, PROXY_CONFIG, current_index, rotation, xr, ann, ad>>

\* create_browser_client, when it does not come to next_proxy_url: no
\* ProxyConfig, or the system proxy is bound.
create_browser_client(t) ==
    /\ CanCall(t)
    /\ ~PROXY_CONFIG.some \/ UsesSystemProxy(PROXY_CONFIG)
    /\ callers' = [callers EXCEPT ![t] =
                     [pc |-> "idle", fn |-> "browser", current |-> 0,
                      result |-> [bound |-> IF PROXY_CONFIG.some THEN "system" ELSE "direct",
                                  port |-> 0]]]
    /\ proxy_calls' = proxy_calls + 1
    /\ UNCHANGED <<rr, overflow_checks, supervisorVars, unitVars,
                   proxy_env, PROXY_CONFIG, current_index, rotation, xr, ann, ad>>

\* create_new_proxy_client: direct without a ProxyConfig, the system proxy
\* when Proxy::all accepts it, else a port of random_proxy_url.
create_new_proxy_client(t) ==
    /\ CanCall(t)
    /\ \E random_index \in (IF PROXY_CONFIG.some /\ ~UsesSystemProxy(PROXY_CONFIG)
                            THEN RandomIndices(PROXY_CONFIG) ELSE {0}) :
          callers' = [callers EXCEPT ![t] =
                        [pc |-> "idle", fn |-> "new", current |-> 0,
                         result |->
                            IF ~PROXY_CONFIG.some THEN [bound |-> "direct", port |-> 0]
                            ELSE IF UsesSystemProxy(PROXY_CONFIG)
                                 THEN [bound |-> "system", port |-> 0]
                            ELSE [bound |-> "port",
                                  port |-> PROXY_CONFIG.port_range[1] + random_index]]]
    /\ proxy_calls' = proxy_calls + 1
    /\ UNCHANGED <<rr, overflow_checks, supervisorVars, unitVars,
                   proxy_env, PROXY_CONFIG, current_index, rotation, xr, ann, ad>>

ProxyStep ==
    \E t \in Callers :
        \/ \E fn \in {"next", "browser"} : fetch_add(t, fn)
        \/ next_returned(t)
        \/ random_proxy_url(t)
        \/ create_browser_client(t)
        \/ create_new_proxy_client(t)

\* No proxy function has been called.
ProxyIdle ==
    /\ proxy_env = NoProxyEnv
    /\ PROXY_CONFIG = NoProxyConfig
    /\ current_index = 0
    /\ callers = [t \in Callers |-> CallerIdle]
    /\ rotation = <<>>
    /\ proxy_calls = 0

(***************************************************************************)
(* extract_response_data (utils/mod.rs).  A header value is kept as the    *)
(* sequence of its parts (media type, parameters), a body as a run of      *)
(* one-byte characters, one wider character and a one-byte rest, which is  *)
(* what the byte slice of the excerpt depends on.                          *)
(***************************************************************************)
EXCERPT_BYTES == 200

MaxTail == 2          \* most one-byte characters after the wide character

\* Content-Type values; <<>> when the header is missing or not visible ASCII
\* (unwrap_or("")).
ContentTypes ==
    {<<>>,
     <<"application/json">>,
     <<"application/json", "charset=utf-8">>,
     <<"text/html">>,
     <<"text/html", "charset=utf-8">>,
     <<"Text/HTML">>,
     <<"text/plain">>}

\* ASCII lower case of a part.
LowerPart(part) == IF part = "Text/HTML" THEN "text/html" ELSE part

\* The media type a Content-Type declares, which is case-insensitive.
DeclaresMediaType(content_type, media_type) ==
    \E i \in DOMAIN content_type : LowerPart(content_type[i]) = media_type

\* An is_html that holds for every response.
is_html_Always(content_type) == TRUE

\* `content_type.contains("text/html")`: a comparison of bytes.
is_html(content_type) ==
    \E i \in DOMAIN content_type : content_type[i] = "text/html"

\* Bodies: `head` one-byte characters, then a character of `wide` bytes (none
\* when 0), then `tail` one-byte characters.
Bodies ==
    [head : {0, EXCERPT_BYTES - 2, EXCERPT_BYTES - 1, EXCERPT_BYTES},
     wide : {0, 3},
     tail : 0..MaxTail]

\* body.len(), in bytes.
ByteLen(body) == body.head + body.wide + body.tail

\* The number of characters of the body.
CharLen(body) == body.head + (IF body.wide > 0 THEN 1 ELSE 0) + body.tail

\* str::is_char_boundary.
is_char_boundary(body, index) ==
    ~(body.wide > 0 /\ body.head < index /\ index < body.head + body.wide)

\* The number of characters of &body[..index], index being a boundary.
CharsBefore(body, index) ==
    IF index <= body.head THEN index
    ELSE IF body.wide = 0 THEN index
    ELSE index - body.wide + 1

\* html_extractor: None, or a function whose answer for the body is a value
\* with items, a value without items, or an error.
Extractors == {"none", "items", "empty", "error"}

NoOutcome == [kind |-> "none", value |-> "none"]

\* The call as entered: its arguments and what the server sent.
ExtractCalls ==
    [pc : {"text"},
     content_type : ContentTypes,
     text_ok : BOOLEAN,
     body : Bodies,
     matches_schema : BOOLEAN,
     html_extractor : Extractors,
     fallback_calls : {0},
     fallback_arg : {<<>>},
     logged : {<<>>},
     outcome : {NoOutcome}]

\* `response.text().await?`.
xr_text ==
    /\ xr.pc = "text"
    /\ xr' = IF xr.text_ok
             THEN [xr EXCEPT !.pc = "decode"]
             ELSE [xr EXCEPT !.pc = "done",
                             !.outcome = [kind |-> "error", value |-> "body"]]
    /\ UNCHANGED <<rr, overflow_checks, supervisorVars, unitVars, proxyVars, ann, ad>>

\* The structured decode: skipped for HTML, else serde_json::from_str.
json_result(x) ==
    IF is_html(x.content_type) THEN [ok |-> FALSE, error |-> "content_type_is_html"]
    ELSE IF x.matches_schema THEN [ok |-> TRUE, error |-> "none"]
    ELSE [ok |-> FALSE, error |-> "json_parse"]

\* The match on json_result.
xr_decode ==
    /\ xr.pc = "decode"
    /\ LET r == json_result(xr) IN
       xr' = IF r.ok
             THEN [xr EXCEPT !.pc = "done",
                             !.outcome = [kind |-> "structured", value |-> "data"]]
             ELSE IF xr.html_extractor # "none"
                  THEN [xr EXCEPT !.pc = "fallback"]
                  ELSE [xr EXCEPT !.pc = "excerpt"]
    /\ UNCHANGED <<rr, overflow_checks, supervisorVars, unitVars, proxyVars, ann, ad>>

\* `extractor(&body)`: its answer is the result.
xr_fallback ==
    /\ xr.pc = "fallback"
    /\ xr' = [xr EXCEPT !.pc = "done",
                        !.fallback_calls = @ + 1,
                        !.fallback_arg = <<xr.body>>,
                        !.outcome = [kind |-> "fallback", value |-> xr.html_extractor]]
    /\ UNCHANGED <<rr, overflow_checks, supervisorVars, unitVars, proxyVars, ann, ad>>

\* No extractor: the start of the body is logged and the decode error
\* returned.  `&body[..200]` panics when byte 200 is inside a character.
xr_excerpt ==
    /\ xr.pc = "excerpt"
    /\ xr' = IF ByteLen(xr.body) > EXCERPT_BYTES
             THEN IF is_char_boundary(xr.body, EXCERPT_BYTES)
                  THEN [xr EXCEPT !.pc = "done",
                                  !.logged = <<[bytes |-> EXCERPT_BYTES,
                                                chars |-> CharsBefore(xr.body, EXCERPT_BYTES)]>>,
                                  !.outcome = [kind |-> "error",
                                               value |-> json_result(xr).error]]
                  ELSE [xr EXCEPT !.pc = "panic"]
             ELSE [xr EXCEPT !.pc = "done",
                             !.logged = <<[bytes |-> ByteLen(xr.body),
                                           chars |-> CharLen(xr.body)]>>,
                             !.outcome = [kind |-> "error",
                                          value |-> json_result(xr).error]]
    /\ UNCHANGED <<rr, overflow_checks, supervisorVars, unitVars, proxyVars, ann, ad>>

ExtractStep == xr_text \/ xr_decode \/ xr_fallback \/ xr_excerpt

XrIdle == [pc |-> "idle"]

AnnIdle == [pc |-> "idle"]

(***************************************************************************)
(* Announcement::analyze_for_new_listing (models/announcement.rs).  A      *)
(* string is the sequence of its characters; a character outside ASCII is  *)
(* written by its code point.                                              *)
(***************************************************************************)
MaxAnalyzeCalls == 2  \* calls of analyze_for_new_listing on one announcement

UpperLetters ==
    <<"A", "B", "C", "D", "E", "F", "G", "H", "I", "J", "K", "L", "M", "N",
      "O", "P", "Q", "R", "S", "T", "U", "V", "W", "X", "Y", "Z">>

LowerLetters ==
    <<"a", "b", "c", "d", "e", "f", "g", "h", "i", "j", "k", "l", "m", "n",
      "o", "p", "q", "r", "s", "t", "u", "v", "w", "x", "y", "z">>

Digits == {"0", "1", "2", "3", "4", "5", "6", "7", "8", "9"}

\* The CJK characters of the keywords.
CjkChars == {"U+6DFB", "U+52A0", "U+4E0A", "U+7EBF"}

Range(s) == {s[i] : i \in DOMAIN s}

\* char::to_lowercase and char::to_uppercase on the characters of the model.
LowerChar(c) ==
    IF \E i \in DOMAIN UpperLetters : UpperLetters[i] = c
    THEN LowerLetters[CHOOSE i \in DOMAIN UpperLetters : UpperLetters[i] = c]
    ELSE c

UpperChar(c) ==
    IF \E i \in DOMAIN LowerLetters : LowerLetters[i] = c
    THEN UpperLetters[CHOOSE i \in DOMAIN LowerLetters : LowerLetters[i] = c]
    ELSE c

\* A to_lowercase that leaves the text as it is.
to_lowercase_Identity(s) == s

to_lowercase(s) == [i \in DOMAIN s |-> LowerChar(s[i])]

to_uppercase(s) == [i \in DOMAIN s |-> UpperChar(s[i])]

\* str::contains.
contains(s, pattern) ==
    \E i \in 0..(Len(s) - Len(pattern)) : SubSeq(s, i + 1, i + Len(pattern)) = pattern

\* The class \w of the regex crate: letters, digits, the underscore and, being
\* Unicode-aware, the CJK characters.
IsWordChar(c) ==
    \/ c \in Range(UpperLetters)
    \/ c \in Range(LowerLetters)
    \/ c \in Digits
    \/ c = "_"
    \/ c \in CjkChars

\* A keyword list whose ninth keyword is "trading pair".
listing_keywords_Singular ==
    <<<<"n", "e", "w", " ", "l", "i", "s", "t", "i", "n", "g">>,
      <<"l", "i", "s", "t", "i", "n", "g">>,
      <<"n", "e", "w", " ", "t", "o", "k", "e", "n">>,
      <<"n", "e", "w", " ", "c", "o", "i", "n">>,
      <<"n", "e", "w", " ", "c", "r", "y", "p", "t", "o", "c", "u", "r", "r",
        "e", "n", "c", "y">>,
      <<"w", "i", "l", "l", " ", "l", "i", "s", "t">>,
      <<"n", "o", "w", " ", "a", "v", "a", "i", "l", "a", "b", "l", "e">>,
      <<"d", "e", "p", "o", "s", "i", "t", "s", " ", "o", "p", "e", "n">>,
      <<"t", "r", "a", "d", "i", "n", "g", " ", "p", "a", "i", "r">>,
      <<"U+6DFB", "U+52A0">>,
      <<"U+4E0A", "U+7EBF">>>>

\* listing_keywords.
listing_keywords ==
    <<<<"n", "e", "w", " ", "l", "i", "s", "t", "i", "n", "g">>,
      <<"l", "i", "s", "t", "i", "n", "g">>,
      <<"n", "e", "w", " ", "t", "o", "k", "e", "n">>,
      <<"n", "e", "w", " ", "c", "o", "i", "n">>,
      <<"n", "e", "w", " ", "c", "r", "y", "p", "t", "o", "c", "u", "r", "r",
        "e", "n", "c", "y">>,
      <<"w", "i", "l", "l", " ", "l", "i", "s", "t">>,
      <<"n", "o", "w", " ", "a", "v", "a", "i", "l", "a", "b", "l", "e">>,
      <<"d", "e", "p", "o", "s", "i", "t", "s", " ", "o", "p", "e", "n">>,
      <<"t", "r", "a", "d", "i", "n", "g", " ", "p", "a", "i", "r", "s">>,
      <<"U+6DFB", "U+52A0">>,
      <<"U+4E0A", "U+7EBF">>>>

SYMBOL_MIN == 2

SYMBOL_MAX == 10

\* The length of the run of word characters of s that starts at index i.
RECURSIVE WordRun(_, _)
WordRun(s, i) ==
    IF i > Len(s) \/ ~IsWordChar(s[i]) THEN 0 ELSE 1 + WordRun(s, i + 1)

\* captures_iter of [\(\[]([\w]{2,10})[\)\]] from index i on: the leftmost
\* matches, none overlapping; group 1 of each.
RECURSIVE Captures(_, _)
Captures(s, i) ==
    IF i > Len(s) THEN <<>>
    ELSE IF s[i] \in {"(", "["}
         THEN LET n == WordRun(s, i + 1)
                  close == i + 1 + n
              IN  IF /\ n >= SYMBOL_MIN
                     /\ n <= SYMBOL_MAX
                     /\ close <= Len(s)
                     /\ s[close] \in {")", "]"}
                  THEN <<SubSeq(s, i + 1, i + n)>> \o Captures(s, close + 1)
                  ELSE Captures(s, i + 1)
         ELSE Captures(s, i + 1)

\* The loop over the captures of the title: every symbol is pushed.
TitleSymbols(title) ==
    LET caps == Captures(title, 1) IN [i \in DOMAIN caps |-> to_uppercase(caps[i])]

\* The loop over the captures of the content: a symbol is pushed unless
\* symbols contains it.
RECURSIVE PushNew(_, _, _)
PushNew(symbols, caps, i) ==
    IF i > Len(caps) THEN symbols
    ELSE LET symbol == to_uppercase(caps[i]) IN
         PushNew(IF symbol \in Range(symbols) THEN symbols ELSE Append(symbols, symbol),
                 caps, i + 1)

\* `listing_keywords.iter().any(...)` on the lower-cased title and content.
IsListing(title, content) ==
    LET title_lower == to_lowercase(title)
        content_lower == to_lowercase(content)
    IN  \E k \in DOMAIN listing_keywords :
            \/ contains(title_lower, listing_keywords[k])
            \/ contains(content_lower, listing_keywords[k])

\* An analysis that extracts the symbols whether or not a keyword was found.
Analyzed_AlwaysExtracts(a) ==
    [a EXCEPT !.is_new_listing = IsListing(a.title, a.content),
              !.token_symbols = PushNew(TitleSymbols(a.title), Captures(a.content, 1), 1),
              !.calls = @ + 1]

\* An analysis that pushes onto the symbols the announcement already has.
Analyzed_Accumulates(a) ==
    LET listing == IsListing(a.title, a.content) IN
    [a EXCEPT !.is_new_listing = listing,
              !.token_symbols =
                  IF listing
                  THEN PushNew(a.token_symbols \o TitleSymbols(a.title),
                               Captures(a.content, 1), 1)
                  ELSE @,
              !.calls = @ + 1]

\* The announcement after analyze_for_new_listing: token_symbols is assigned
\* only when the announcement is a listing.
Analyzed(a) ==
    LET listing == IsListing(a.title, a.content) IN
    [a EXCEPT !.is_new_listing = listing,
              !.token_symbols =
                  IF listing
                  THEN PushNew(TitleSymbols(a.title), Captures(a.content, 1), 1)
                  ELSE @,
              !.calls = @ + 1]

\* Announcement::new: not a listing, no symbols.
NewAnnouncement(title, content) ==
    [pc |-> "built", title |-> title, content |-> content,
     is_new_listing |-> FALSE, token_symbols |-> <<>>, calls |-> 0]

analyze_for_new_listing ==
    /\ ann.pc = "built"
    /\ ann.calls < MaxAnalyzeCalls
    /\ ann' = Analyzed(ann)
    /\ UNCHANGED <<rr, overflow_checks, supervisorVars, unitVars, proxyVars, xr, ad>>

\* The texts the announcements of the model are made of.

NewListingFoobar ==
    <<"N", "e", "w", " ", "L", "i", "s", "t", "i", "n", "g", ":", " ", "F",
      "o", "o", "b", "a", "r", " ">>

ScheduledMaintenance ==
    <<"S", "c", "h", "e", "d", "u", "l", "e", "d", " ", "m", "a", "i", "n",
      "t", "e", "n", "a", "n", "c", "e">>

DowntimeExpected ==
    <<"d", "o", "w", "n", "t", "i", "m", "e", " ", "e", "x", "p", "e", "c",
      "t", "e", "d">>

TradingPairAdded ==
    <<" ", "t", "r", "a", "d", "i", "n", "g", " ", "p", "a", "i", "r", " ",
      "a", "d", "d", "e", "d">>

TradingPairsAdded ==
    <<" ", "t", "r", "a", "d", "i", "n", "g", " ", "p", "a", "i", "r", "s",
      " ", "a", "d", "d", "e", "d">>

AlsoSupports ==
    <<"A", "l", "s", "o", " ", "s", "u", "p", "p", "o", "r", "t", "s", " ">>

AndText ==
    <<" ", "a", "n", "d", " ">>

WillListUpper ==
    <<"W", "I", "L", "L", " ", "L", "I", "S", "T", " ">>

NowAvailableMixed ==
    <<"N", "o", "w", " ", "A", "v", "a", "i", "l", "a", "b", "l", "e", " ">>

CjkLive ==
    <<"U+4E0A", "U+7EBF", " ">>

TradingPairsLower ==
    <<"t", "r", "a", "d", "i", "n", "g", " ", "p", "a", "i", "r", "s", " ">>

ParenFOO ==
    <<"(", "F", "O", "O", ")">>

SquareBTC ==
    <<"[", "B", "T", "C", "]">>

ParenETH ==
    <<"(", "E", "T", "H", ")">>

ParenBTC ==
    <<"(", "B", "T", "C", ")">>

ParenEthLower ==
    <<"(", "e", "t", "h", ")">>

ParenOneChar ==
    <<"(", "A", ")">>

ParenUnderscore ==
    <<"(", "a", "_", "b", ")">>

ParenElevenChars ==
    <<"(", "A", "B", "C", "D", "E", "F", "G", "H", "I", "J", "K", ")">>

MixedBrackets ==
    <<"[", "B", "T", "C", ")">>

ParenHyphen ==
    <<"(", "B", "T", "-", "C", ")">>

Heads ==
    {<<>>, NewListingFoobar,
     ScheduledMaintenance,
     DowntimeExpected,
     TradingPairAdded,
     TradingPairsAdded,
     AlsoSupports,
     AndText,
     WillListUpper,
     NowAvailableMixed,
     CjkLive,
     TradingPairsLower}

BracketTokens ==
    {<<>>, ParenFOO,
     SquareBTC,
     ParenETH,
     ParenBTC,
     ParenEthLower,
     ParenOneChar,
     ParenUnderscore,
     ParenElevenChars,
     MixedBrackets,
     ParenHyphen}

\* A text: a bracketed token or none, a phrase or none, a bracketed token or
\* none.
Texts == {p \o h \o q : p \in {<<>>, SquareBTC, ParenETH}, h \in Heads, q \in BracketTokens}

Titles == {t \in Texts : Len(t) > 0}

Contents ==
    {<<>>, DowntimeExpected, AlsoSupports \o ParenETH \o AndText \o ParenBTC,
     ParenETH, ParenFOO \o ParenFOO, TradingPairsLower \o ParenEthLower}


(***************************************************************************)
(* fetch_announcements of the twelve adapters (exchanges/*.rs): the feed   *)
(* request, the decoding of its answer, the remote success indicator, and  *)
(* the loop over the items.  The request for an item's content is one      *)
(* step with its Result for outcome.                                       *)
(***************************************************************************)
MaxItems == 2    \* most items a feed holds

\* create_exchange_monitors: the twelve adapters.
Adapters ==
    {"Binance", "OKX", "Bybit", "BitMEX", "Gate.io", "Kraken", "Coinbase",
     "Upbit", "Bitget", "HTX", "MEXC", "KuCoin"}

\* The adapters that hand their feed request to retry_request; the others
\* send it once on their own client and return its error with `?`.
RetriesFeed(a) == a \in {"Binance", "HTX", "KuCoin"}

FEED_MAX_RETRIES == 3

FeedInitialDelayMs(a) == IF a = "Binance" THEN 500 ELSE 1000

\* The adapters whose decoded feed carries a success indicator that they
\* check (success, or a code compared with the one for success).
ChecksIndicator(a) == a \notin {"BitMEX", "Kraken", "Coinbase"}

\* The adapters that request the content of an item: Binance and Upbit of
\* every item, Bitget and MEXC of an item the feed gave no content for.
FetchesContent(a, content) ==
    \/ a \in {"Binance", "Upbit"}
    \/ a \in {"Bitget", "MEXC"} /\ content = <<>>

\* The items an adapter passes over: Binance one without a url, Kraken one
\* whose url is empty.
SkipsItem(a, item) == a \in {"Binance", "Kraken"} /\ ~item.url

\* An adapter that leaves out the item whose content it could not fetch
\* (the Err arm only logs a warning).
DropsOnContentError(a) == a = "Binance"

\* The adapters that call analyze_for_new_listing on the announcement they
\* built; KuCoin and HTX build theirs with a struct literal and return it.
CallsClassifier(a) == a \notin {"KuCoin", "HTX"}

\* The adapter that looks at the categories of an item.
ReadsCategories(a) == a = "Coinbase"

NoDetail == [kind |-> "none"]

DetailFailed == [kind |-> "err"]

ItemTitles ==
    {NewListingFoobar \o ParenFOO, ScheduledMaintenance, SquareBTC \o TradingPairAdded}

ItemContents == {<<>>, TradingPairsLower \o ParenEthLower}

\* What the request for an item's content answers: an error, or the content.
Details == {DetailFailed} \cup {[kind |-> "ok", content |-> c] : c \in ItemContents}

\* The seconds the clock can show while one feed is mapped.
ClockSeconds == {0, 1}

\* The items a feed of adapter a can hold, each with the outcome of the
\* request for its content where the adapter makes one.  Only an item of HTX
\* can come without an id; now is the second the clock shows when such an item
\* is mapped.
ItemInputs(a) ==
    {item \in [title : ItemTitles, content : ItemContents, category : BOOLEAN,
               url : BOOLEAN, detail : Details \cup {NoDetail},
               has_id : BOOLEAN, now : ClockSeconds] :
        /\ (~item.has_id => a = "HTX")
        /\ (item.has_id => item.now = 0)
        /\ (a \in {"Binance", "Upbit"} => item.content = <<>>)
        /\ (item.category => ReadsCategories(a))
        /\ (~item.url => a \in {"Binance", "Kraken"})
        /\ (item.detail # NoDetail) =
              (FetchesContent(a, item.content) /\ ~SkipsItem(a, item))}

\* The decoded feed: the indicator and the number of items, or no value when
\* the body could not be read or decoded.
Undecodable == [ok |-> FALSE, success |-> FALSE, n |-> 0]

Decoded ==
    {Undecodable} \cup [ok : {TRUE}, success : BOOLEAN, n : 0..MaxItems]

NoFeed == [calls |-> 0, sleeps |-> 0, last |-> [kind |-> "none"], clients |-> <<>>]

AdIdle ==
    [pc |-> "idle", adapter |-> "none", feed |-> NoFeed, requests |-> 0,
     body |-> Undecodable, items |-> <<>>, announcements |-> <<>>,
     result |-> NoResult]

\* The client the k-th attempt of the feed request is sent through, 0 for a
\* client built before retry_request is entered and k for the client the k-th
\* call of the request factory builds.  Binance builds its client in the
\* factory (create_new_proxy_client); KuCoin and HTX build one client with
\* create_browser_client, which binds the proxy, and the factory borrows it.
FeedClient(a, k) == IF a = "Binance" THEN k ELSE 0

\* fetch_announcements is called: the feed request is handed to
\* retry_request, or sent.
fetch_announcements(a) ==
    /\ ad.pc = "idle"
    /\ rr.pc = "idle"
    /\ ad' = [ad EXCEPT !.pc = "feed", !.adapter = a]
    /\ rr' = IF RetriesFeed(a)
             THEN RetryEntered(FEED_MAX_RETRIES, Ms(FeedInitialDelayMs(a)))
             ELSE rr
    /\ UNCHANGED <<overflow_checks, supervisorVars, unitVars, proxyVars, xr, ann>>

\* The error fetch_announcements returns.
Failed(cause) == [kind |-> "err", cause |-> cause]

\* `.send().await.context(..)?` of an adapter with a client of its own: a
\* transport error is returned, a response of any status goes on to be decoded.
feed_sent(outcome) ==
    /\ ad.pc = "feed"
    /\ ~RetriesFeed(ad.adapter)
    /\ ad' = [ad EXCEPT
                !.feed = [calls |-> 1, sleeps |-> 0, last |-> outcome,
                          clients |-> <<0>>],
                !.requests = @ + 1,
                !.pc = IF outcome.kind = "transport" THEN "returned" ELSE "decode",
                !.result = IF outcome.kind = "transport" THEN Failed("transport") ELSE @]
    /\ UNCHANGED <<rr, overflow_checks, supervisorVars, unitVars, proxyVars, xr, ann>>

\* retry_request has returned to the adapter: its error is returned (`?`, or
\* the Err arm of Binance), its response goes on to be decoded.
feed_retried ==
    /\ ad.pc = "feed"
    /\ RetriesFeed(ad.adapter)
    /\ rr.pc \in {"done", "panic"}
    /\ LET feed == [calls |-> rr.calls, sleeps |-> Len(rr.sleeps),
                    last |-> IF rr.outcomes = <<>> THEN [kind |-> "none"]
                             ELSE rr.outcomes[Len(rr.outcomes)],
                    clients |-> [k \in 1..rr.calls |-> FeedClient(ad.adapter, k)]]
       IN  ad' = [ad EXCEPT
                    !.feed = feed,
                    !.requests = @ + rr.calls,
                    !.pc = IF rr.pc = "panic" THEN "panicked"
                           ELSE IF rr.result.kind = "err" THEN "returned"
                           ELSE "decode",
                    !.result = IF rr.pc = "done" /\ rr.result.kind = "err"
                               THEN Failed("retries") ELSE @]
    /\ rr' = RetryIdle
    /\ UNCHANGED <<overflow_checks, supervisorVars, unitVars, proxyVars, xr, ann>>

\* The body is read and decoded into the adapter's response type
\* (response.json(), serde_json::from_str, extract_response_data): an error
\* is returned, a value goes on to the check of its indicator.
feed_decoded(body) ==
    /\ ad.pc = "decode"
    /\ ad' = [ad EXCEPT !.body = body,
                        !.pc = IF body.ok THEN "check" ELSE "returned",
                        !.result = IF body.ok THEN @ ELSE Failed("decode")]
    /\ UNCHANGED <<rr, overflow_checks, supervisorVars, unitVars, proxyVars, xr, ann>>

\* An adapter that asks again when the remote API says it did not succeed.
indicator_checked_AsksAgain ==
    /\ ad.pc = "check"
    /\ IF ChecksIndicator(ad.adapter) /\ ~ad.body.success
       THEN /\ ad' = [ad EXCEPT !.pc = "feed"]
            /\ rr' = IF RetriesFeed(ad.adapter)
                     THEN RetryEntered(FEED_MAX_RETRIES, Ms(FeedInitialDelayMs(ad.adapter)))
                     ELSE rr
       ELSE /\ ad' = IF ad.body.n = 0
                     THEN [ad EXCEPT !.pc = "returned", !.result = [kind |-> "ok"]]
                     ELSE [ad EXCEPT !.pc = "items"]
            /\ rr' = rr
    /\ UNCHANGED <<overflow_checks, supervisorVars, unitVars, proxyVars, xr, ann>>

\* `if !response.success { return Err(..) }` (or the code compared): the
\* error is returned; otherwise the loop over the items begins, and a feed
\* without items is returned as it is.
indicator_checked ==
    /\ ad.pc = "check"
    /\ ad' = IF ChecksIndicator(ad.adapter) /\ ~ad.body.success
             THEN [ad EXCEPT !.pc = "returned", !.result = Failed("indicator")]
             ELSE IF ad.body.n = 0
             THEN [ad EXCEPT !.pc = "returned", !.result = [kind |-> "ok"]]
             ELSE [ad EXCEPT !.pc = "items"]
    /\ UNCHANGED <<rr, overflow_checks, supervisorVars, unitVars, proxyVars, xr, ann>>

\* The content the announcement of an item is built with: the one fetched,
\* empty when the fetch failed, else the feed's.
ItemContent(item) ==
    IF item.detail = NoDetail THEN item.content
    ELSE IF item.detail.kind = "ok" THEN item.detail.content
    ELSE <<>>

\* A second analysis that extracts the symbols whatever the keywords say.
Overridden_ExtractsSymbols(a) ==
    [Analyzed([a EXCEPT !.is_new_listing = TRUE]) EXCEPT
        !.token_symbols = PushNew(TitleSymbols(a.title), Captures(a.content, 1), 1)]

\* coinbase.rs:100-104: the flag is set and analyze_for_new_listing called
\* again, which assigns the flag anew.
Overridden(a) == Analyzed([a EXCEPT !.is_new_listing = TRUE])

\* The id an adapter gives the announcement of the i-th item of a feed.  OKX
\* and Kraken derive it from the item's link, HTX from the clock's second when
\* the item has no id, and every other id is the one the feed supplies; the
\* ids and the links of the items of one feed are taken to differ.
ItemId(a, i, item) ==
    IF a \in {"OKX", "Kraken"} THEN [kind |-> "url", n |-> i]
    ELSE IF a = "HTX" /\ ~item.has_id THEN [kind |-> "clock", n |-> item.now]
    ELSE [kind |-> "feed", n |-> i]

\* The announcement an adapter makes of an item: built, analysed where the
\* adapter calls the classifier, and for Coinbase analysed again when a
\* category names a listing and the announcement is not one.
Built(a, i, item) ==
    LET new == NewAnnouncement(item.title, ItemContent(item))
        analysed == IF CallsClassifier(a) THEN Analyzed(new) ELSE new
        final == IF ReadsCategories(a) /\ item.category /\ ~analysed.is_new_listing
                 THEN Overridden(analysed) ELSE analysed
    IN  [id |-> ItemId(a, i, item), item |-> i, title |-> final.title, content |-> final.content,
         is_new_listing |-> final.is_new_listing,
         token_symbols |-> final.token_symbols]

\* Whether the announcement of the item is pushed on the batch.
Pushed(a, item) ==
    /\ ~SkipsItem(a, item)
    /\ ~(DropsOnContentError(a) /\ item.detail = DetailFailed)

\* One iteration of the loop over the items; after the last one the batch is
\* returned.
item_processed(item) ==
    /\ ad.pc = "items"
    /\ item \in ItemInputs(ad.adapter)
    /\ LET i == Len(ad.items) + 1
           batch == IF Pushed(ad.adapter, item)
                    THEN Append(ad.announcements, Built(ad.adapter, i, item))
                    ELSE ad.announcements
       IN  ad' = [ad EXCEPT
                    !.items = Append(@, item),
                    !.announcements = batch,
                    !.requests = IF item.detail = NoDetail THEN @ ELSE @ + 1,
                    !.pc = IF i = ad.body.n THEN "returned" ELSE "items",
                    !.result = IF i = ad.body.n THEN [kind |-> "ok"] ELSE @]
    /\ UNCHANGED <<rr, overflow_checks, supervisorVars, unitVars, proxyVars, xr, ann>>

\* What the feed request of an adapter with its own client ends in.
FeedOutcomes ==
    {[kind |-> "transport"]} \cup {[kind |-> "response", status |-> s] : s \in Statuses}

AdapterStep ==
    \/ \E a \in Adapters : fetch_announcements(a)
    \/ \E outcome \in FeedOutcomes : feed_sent(outcome)
    \/ feed_retried
    \/ \E body \in Decoded : feed_decoded(body)
    \/ indicator_checked
    \/ \E item \in ItemInputs(ad.adapter) : item_processed(item)

(***************************************************************************)
(* Time.  A step that needs no waiting is taken before time passes.        *)
(***************************************************************************)
UnitUrgent(u) ==
    \/ unit[u].pc \in {"start", "reporting"}
    \/ TickReady(u)
    \/ UsesFetchCascade(u) /\ unit[u].pc = "fetching" /\ rr.pc \in {"done", "panic"}

RetryUrgent == rr.pc = "loop" \/ (rr.pc = "sleep" /\ rr.sleep_left = 0)

MainUrgent ==
    \/ main_pc = "spawn"
    \/ main_pc = "join" /\ (tasks = {} \/ \E u \in tasks : Finished(u))

Running(u) == unit[u].pc \in {"wait", "fetching", "processing", "reporting"}

Max(a, b) == IF a >= b THEN a ELSE b

Min(a, b) == IF a <= b THEN a ELSE b

\* One time unit passes: every interval comes one unit closer to its deadline
\* and a sleeping retry_request one unit closer to its wake-up.
TimePasses ==
    /\ ~RetryUrgent
    /\ ~MainUrgent
    /\ \A u \in Exchanges : ~UnitUrgent(u)
    /\ unit' = [u \in Exchanges |->
                  IF Running(u)
                  THEN [unit[u] EXCEPT !.timer = Max(@ - 1, 0 - MaxBacklog),
                                       !.since = Min(@ + 1, Period(u) + 1)]
                  ELSE unit[u]]
    /\ rr' = IF rr.pc = "sleep" THEN [rr EXCEPT !.sleep_left = @ - 1] ELSE rr
    /\ UNCHANGED <<overflow_checks, libVars, supervisorVars, log>>

(***************************************************************************)
(* retry_request on its own, for every max_retries up to MaxAttempts and   *)
(* every outcome of every attempt.                                         *)
(***************************************************************************)
NoConfig ==
    [default_polling_interval |-> 1, exchange_intervals |-> <<>>,
     enabled_exchanges |-> <<>>]

InitRetry ==
    /\ overflow_checks \in BOOLEAN
    /\ \E n \in 0..MaxAttempts, d \in InitialDelays : rr = RetryEntered(n, d)
    /\ config = NoConfig
    /\ main_pc = "idle"
    /\ next_monitor = 1
    /\ tasks = {}
    /\ main_log = <<>>
    /\ unit = [u \in Exchanges |-> NoTask]
    /\ log = [u \in Exchanges |-> <<>>]
    /\ ProxyIdle
    /\ xr = XrIdle
    /\ ann = AnnIdle
    /\ ad = AdIdle

NextRetry == RetryStep(Statuses) \/ TimePasses

SpecRetry == InitRetry /\ [][NextRetry]_vars

(***************************************************************************)
(* The proxy functions called by concurrent callers.                       *)
(***************************************************************************)
\* The rest of the program at rest.
ProgramIdle ==
    /\ overflow_checks = FALSE
    /\ rr = RetryIdle
    /\ config = NoConfig
    /\ main_pc = "idle"
    /\ next_monitor = 1
    /\ tasks = {}
    /\ main_log = <<>>
    /\ unit = [u \in Exchanges |-> NoTask]
    /\ log = [u \in Exchanges |-> <<>>]

InitProxy ==
    /\ ProgramIdle
    /\ proxy_env \in ProxyEnvs
    /\ PROXY_CONFIG = from_env(proxy_env)
    /\ current_index = 0
    /\ callers = [t \in Callers |-> CallerIdle]
    /\ rotation = <<>>
    /\ proxy_calls = 0
    /\ xr = XrIdle
    /\ ann = AnnIdle
    /\ ad = AdIdle

SpecProxy == InitProxy /\ [][ProxyStep]_vars

(***************************************************************************)
(* One call of extract_response_data for every response and extractor.     *)
(***************************************************************************)
InitExtract ==
    /\ ProgramIdle
    /\ ProxyIdle
    /\ xr \in ExtractCalls
    /\ ann = AnnIdle
    /\ ad = AdIdle

SpecExtract == InitExtract /\ [][ExtractStep]_vars

(***************************************************************************)
(* analyze_for_new_listing called on a newly built announcement.           *)
(***************************************************************************)
InitClassify ==
    /\ ProgramIdle
    /\ ProxyIdle
    /\ xr = XrIdle
    /\ \E title \in Titles, content \in Contents :
          ann = NewAnnouncement(title, content)
    /\ ad = AdIdle

SpecClassify == InitClassify /\ [][analyze_for_new_listing]_vars

(***************************************************************************)
(* One call of fetch_announcements of every adapter, for every answer of   *)
(* the servers.                                                            *)
(***************************************************************************)
InitAdapter ==
    /\ ProgramIdle
    /\ ProxyIdle
    /\ xr = XrIdle
    /\ ann = AnnIdle
    /\ ad = AdIdle

NextAdapter == AdapterStep \/ RetryStep(Statuses) \/ TimePasses

SpecAdapter == InitAdapter /\ [][NextAdapter]_vars

(***************************************************************************)
(* The program: main, the tasks it spawns and the passing of time.         *)
(***************************************************************************)
\* The statuses the model lets the Binance server answer with.
BinanceStatuses == {200, TOO_MANY_REQUESTS}

Init ==
    /\ overflow_checks = FALSE
    /\ rr = RetryIdle
    /\ config \in Configs
    /\ main_pc = "spawn"
    /\ next_monitor = 1
    /\ tasks = {}
    /\ main_log = <<>>
    /\ unit = [u \in Exchanges |-> NoTask]
    /\ log = [u \in Exchanges |-> <<>>]
    /\ ProxyIdle
    /\ xr = XrIdle
    /\ ann = AnnIdle
    /\ ad = AdIdle

Next ==
    \/ MainStep
    \/ \E u \in Exchanges : UnitStep(u)
    \/ \E u \in Exchanges, result \in FetchResults : fetch_returned(u, result)
    \/ RetryStep(BinanceStatuses)
    \/ TimePasses

Spec == Init /\ [][Next]_vars

\* The tokio runtime polls every task that can run, timers fire and time goes
\* on; nothing is assumed of the servers, whose answers may never come.
FairSpec ==
    /\ Spec
    /\ WF_vars(TimePasses)
    /\ WF_vars(MainStep)
    /\ \A u \in Exchanges : WF_vars(UnitStep(u))
    /\ WF_vars(request_fn \/ retry_request_exhausted \/ sleep_done)

\* The program with batches of up to MaxBatch announcements, for the records
\* run writes about a batch that holds listings and other announcements.
MaxBatch == 2

BatchResults ==
    {[kind |-> "err"]}
        \cup {[kind |-> "ok", announcements |-> a] :
                 a \in UNION {[1..n -> BOOLEAN] : n \in 0..MaxBatch}}

NextRun ==
    \/ MainStep
    \/ \E u \in Exchanges : UnitStep(u)
    \/ \E u \in Exchanges, result \in BatchResults : fetch_returned(u, result)
    \/ RetryStep(BinanceStatuses)
    \/ TimePasses

SpecRun == Init /\ [][NextRun]_vars

\* Config::new (config/mod.rs:59-68): the map of the per-exchange intervals
\* made of the entries of --exchange-intervals, each entry split at its
\* colons.  An entry of two parts whose second part is a number is inserted
\* under its first part, as written; any other entry is passed over.
RECURSIVE ExchangeIntervals(_)
ExchangeIntervals(args) ==
    IF args = <<>> THEN <<>>
    ELSE LET parse == [s \in {"0", "2"} |-> IF s = "0" THEN 0 ELSE 2]
             parts == args[Len(args)]
             rest == ExchangeIntervals(SubSeq(args, 1, Len(args) - 1))
         IN  IF Len(parts) = 2 /\ parts[2] \in DOMAIN parse
             THEN [k \in DOMAIN rest \cup {parts[1]} |->
                     IF k = parts[1] THEN parse[parts[2]] ELSE rest[k]]
             ELSE rest

\* The configurations of a command line with up to two entries of
\* --exchange-intervals, every source enabled.
IntervalConfigs ==
    LET entries == {<<"binance", "2">>, <<"okx", "2">>, <<"OKX", "2">>,
                    <<"OKX", "2s">>, <<"OKX">>}
        args == {<<>>} \cup {<<x>> : x \in entries}
                       \cup {<<x, y>> : x, y \in entries}
    IN  {[default_polling_interval |-> d,
          exchange_intervals |-> ExchangeIntervals(a),
          enabled_exchanges |-> <<>>] : d \in IntervalSeconds, a \in args}

InitIntervals ==
    /\ overflow_checks = FALSE
    /\ rr = RetryIdle
    /\ config \in IntervalConfigs
    /\ main_pc = "spawn"
    /\ next_monitor = 1
    /\ tasks = {}
    /\ main_log = <<>>
    /\ unit = [u \in Exchanges |-> NoTask]
    /\ log = [u \in Exchanges |-> <<>>]
    /\ ProxyIdle
    /\ xr = XrIdle
    /\ ann = AnnIdle
    /\ ad = AdIdle

\* The program started with per-exchange intervals on the command line.
SpecIntervals == InitIntervals /\ [][Next]_vars

\* The clients with a timeout: a request made on the client of
\* create_new_proxy_client ends after 30 seconds at the latest, in a response
\* or an error.
HasTimeout(u) == UsesFetchCascade(u)

\* FairSpec, and every request on a client with a timeout ends.  Nothing is
\* assumed of a request on a client without one.
FairSpecTimeouts ==
    /\ FairSpec
    /\ WF_vars(request_error \/ \E status \in BinanceStatuses : response_received(status))
    /\ \A u \in {v \in Exchanges : HasTimeout(v)} :
          WF_vars(\E result \in FetchResults : fetch_returned(u, result))

(***************************************************************************)
(* Claims about retry_request, checked under SpecRetry.                    *)
(***************************************************************************)
IsFailure(o) ==
    o.kind = "transport" \/ (o.kind = "response" /\ o.status \in {429, 403})

IsAccepted(o) == o.kind = "response" /\ o.status \notin {429, 403}

\* C1: retry_request invokes the request factory at most max_attempts times,
\* and an attempt answered with a status other than 429 and 403 is the last
\* invocation: the call has returned and no attempt follows it.
C1_AtMostMaxAttempts ==
    /\ rr.calls <= rr.max_retries
    /\ \A i \in 1..Len(rr.outcomes) :
          IsAccepted(rr.outcomes[i]) =>
              i = Len(rr.outcomes) /\ rr.calls = i /\ rr.pc = "done"

C1_Witness ==
    /\ rr.max_retries = 3
    /\ rr.pc = "done"
    /\ rr.calls = 2
    /\ Len(rr.outcomes) = 2
    /\ rr.outcomes[1].kind = "transport"
    /\ IsAccepted(rr.outcomes[2])

\* C2: every Ok result of retry_request carries a status other than 429 and
\* 403.
C2_NeverReturnsRateLimited ==
    rr.result.kind = "ok" => rr.result.response.status \notin {429, 403}

C2_Witness ==
    /\ rr.result.kind = "ok"
    /\ Len(rr.outcomes) = 3
    /\ rr.outcomes[1] = [kind |-> "response", status |-> 429]
    /\ rr.outcomes[2] = [kind |-> "response", status |-> 403]

\* C3 as stated: the sleep that precedes attempt k (the one after failed
\* attempt k-1) lasts initial_delay * 2^(k-1).
C3_Original_SleepBeforeAttempt ==
    \A i \in 1..Len(rr.sleeps) :
        LET k == rr.sleeps[i].after + 1
        IN  k <= rr.max_retries =>
                rr.sleeps[i].dur = Shl(rr.initial_delay_ms, k - 1)

\* C3 amended: the sleep that follows failed attempt k-1 (and precedes attempt
\* k when there is one) lasts initial_delay * 2^(k-2), the first sleep being
\* initial_delay itself, whatever the kinds of the failed attempts, as long as
\* that product fits a u64; every failed attempt before it was slept on once.
C3_SleepBeforeAttempt ==
    \A i \in 1..Len(rr.sleeps) :
        /\ rr.sleeps[i].after = i
        /\ FitsU64(Shl(rr.initial_delay_ms, i - 1)) =>
               rr.sleeps[i].dur = Shl(rr.initial_delay_ms, i - 1)

C3_Witness ==
    /\ rr.initial_delay_ms = Ms(500)
    /\ rr.pc = "inflight"
    /\ rr.calls = 3
    /\ rr.outcomes = <<[kind |-> "transport"], [kind |-> "response", status |-> 429]>>
    /\ rr.sleeps = <<[after |-> 1, dur |-> Ms(500)], [after |-> 2, dur |-> Ms(1000)]>>

\* C4: a response with a status other than 429 and 403 received on the first
\* attempt is the result, unmodified, after exactly one invocation of the
\* factory and no sleep.
C4_FirstAttemptReturned ==
    (Len(rr.outcomes) >= 1 /\ IsAccepted(rr.outcomes[1])) =>
        /\ rr.pc = "done"
        /\ rr.result = [kind |-> "ok",
                        response |-> [status |-> rr.outcomes[1].status, attempt |-> 1]]
        /\ rr.calls = 1
        /\ rr.sleeps = <<>>

C4_Witness ==
    /\ rr.outcomes = <<[kind |-> "response", status |-> 500]>>
    /\ rr.pc = "done"
    /\ rr.max_retries = 3

\* C5 as stated (for max_attempts >= 1): the result is the first accepted
\* response or, all attempts having failed, the transport error of the final
\* attempt.
C5_Original_Result ==
    (rr.pc = "done" /\ rr.max_retries >= 1) =>
        \/ /\ rr.result.kind = "ok"
           /\ IsAccepted(rr.outcomes[Len(rr.outcomes)])
        \/ /\ rr.result.kind = "err"
           /\ rr.result.error = [kind |-> "transport", attempt |-> rr.max_retries]

\* C5 amended: the result is the first accepted response or, when all
\* max_attempts attempts have failed, the error recorded for the final
\* attempt: its transport error, or an error built from its 429/403 status
\* (with max_attempts = 0, an error saying that no attempt was made).  A
\* transport failure on the final attempt is propagated without a sleep and
\* without another attempt.
C5_Result ==
    rr.pc = "done" =>
        LET n == Len(rr.outcomes)
        IN  /\ \A i \in 1..(n - 1) : IsFailure(rr.outcomes[i])
            /\ \/ /\ rr.result.kind = "ok"
                  /\ n >= 1
                  /\ IsAccepted(rr.outcomes[n])
                  /\ rr.result.response = [status |-> rr.outcomes[n].status, attempt |-> n]
               \/ /\ rr.result.kind = "err"
                  /\ n = rr.max_retries
                  /\ rr.calls = n
                  /\ IF n = 0
                     THEN rr.result.error = FailedAfter(0)
                     ELSE /\ IsFailure(rr.outcomes[n])
                          /\ rr.result.error =
                               IF rr.outcomes[n].kind = "transport"
                               THEN [kind |-> "transport", attempt |-> n]
                               ELSE [kind |-> "status", status |-> rr.outcomes[n].status,
                                     attempt |-> n]
                          /\ rr.outcomes[n].kind = "transport" =>
                               \A j \in 1..Len(rr.sleeps) : rr.sleeps[j].after < n

C5_Witness ==
    /\ rr.pc = "done"
    /\ rr.result.kind = "err"
    /\ rr.outcomes = <<[kind |-> "response", status |-> 403], [kind |-> "transport"],
                       [kind |-> "transport"]>>

\* C34 as stated: retry_request sleeps only between two attempts, so that it
\* has never slept more often than max_retries - 1 times, and when it has
\* returned it has called the factory once more than it has slept, whatever
\* the last attempt ended in.
C34_Original_SleepsOnlyBetweenAttempts ==
    /\ Len(rr.sleeps) <= Max(rr.max_retries - 1, 0)
    /\ (rr.pc = "done" /\ rr.calls > 0) => Len(rr.sleeps) <= rr.calls - 1

(***************************************************************************)
(* Claims about the polling loops and the supervisor.                      *)
(***************************************************************************)
LastFailed(u) == log[u] # <<>> /\ log[u][Len(log[u])].kind = "failed"

\* The steps of the cycle of run: wait-for-tick, Fetching, Reporting.
CycleSteps ==
    {<<"none", "start">>, <<"start", "wait">>, <<"start", "panicked">>,
     <<"wait", "fetching">>, <<"fetching", "processing">>,
     <<"fetching", "reporting">>, <<"processing", "reporting">>,
     <<"reporting", "wait">>, <<"panicked", "joined">>}

\* C6: a failed fetch is logged with the exchange's name and the unit goes
\* back to waiting for its tick; run never returns, the unit moves only
\* along wait-for-tick -> Fetching -> Reporting -> wait-for-tick, and every
\* failed fetch is followed by the unit's next fetch.
C6_FailureKeepsLoop ==
    /\ [](\A u \in Exchanges : unit[u].pc # "returned")
    /\ [][\A u \in Exchanges :
            /\ unit'[u].pc # unit[u].pc => <<unit[u].pc, unit'[u].pc>> \in CycleSteps
            /\ (unit[u].pc = "reporting" /\ unit[u].result.kind = "err"
                    /\ unit'[u] # unit[u]) =>
                   /\ unit'[u].pc = "wait"
                   /\ log'[u] = Append(log[u], [kind |-> "failed", exchange |-> u])]_vars
    /\ \A u \in Exchanges :
          (unit[u].pc = "reporting" /\ unit[u].result.kind = "err")
              ~> (unit[u].pc = "fetching")

C6_Witness ==
    /\ unit["Binance"].pc = "fetching"
    /\ unit["Binance"].since = 0
    /\ rr.pc = "loop"
    /\ unit["OKX"].pc = "wait"
    /\ log["OKX"] = <<[kind |-> "fetching", exchange |-> "OKX"],
                      [kind |-> "failed", exchange |-> "OKX"]>>

\* C7: whatever the other units do (fail, hang in a fetch, sleep in a backoff,
\* panic), a unit waiting with its tick due ticks before any time passes, and
\* a unit that has entered its loop and whose own fetches return ticks and
\* fetches infinitely often.
C7_UnitsDoNotStarveEachOther ==
    /\ [][\A u \in Exchanges :
            (unit[u].pc = "wait" /\ unit[u].timer <= 0) =>
                \/ unit'[u].pc = "fetching"
                \/ unit'[u] = unit[u] /\ ~TimePasses]_vars
    /\ \A u \in Exchanges :
          (<>(unit[u].pc = "wait") /\ []<>(unit[u].pc \notin {"fetching", "processing"}))
              => []<><<tick(u)>>_vars

C7_Witness ==
    /\ unit["Binance"].pc = "fetching"
    /\ rr.pc = "sleep"
    /\ rr.sleep_left > 0
    /\ Len(rr.sleeps) = 3
    /\ unit["OKX"].pc = "fetching"
    /\ unit["OKX"].since = 0

\* C8: a unit has at most one fetch cycle open, and it is the cycle it is
\* fetching or reporting in: no tick starts a cycle before the previous one
\* has been reported.
C8_OneCycleAtATime ==
    \A u \in Exchanges :
        /\ unit[u].open <= 1
        /\ unit[u].open = 1 <=> unit[u].pc \in {"fetching", "processing", "reporting"}

\* A cycle that has outlasted the polling interval: the next deadline passed
\* during the fetch.
C8_Witness ==
    /\ unit["Binance"].pc = "fetching"
    /\ unit["Binance"].timer < 0
    /\ unit["Binance"].open = 1
    /\ unit["OKX"].pc = "reporting"
    /\ unit["OKX"].since > Period("OKX")

\* C9 as stated: a unit whose fetch failed starts its next tick no later than
\* one interval after the tick of the failed fetch.
C9_Original_NextTickWithinInterval ==
    [][\A u \in Exchanges :
         (unit[u].pc = "wait" /\ unit'[u].pc = "fetching" /\ LastFailed(u)) =>
             unit[u].since <= Period(u)]_vars

\* C9 amended: after a failed fetch the unit's next tick falls due no later
\* than one interval after the tick of the failed fetch, and no time passes
\* while the unit waits with its tick due: the tick starts one interval after
\* the previous one at the latest when the failed cycle has ended by then,
\* and otherwise when the cycle ends.
C9_NextTickDue ==
    /\ [](\A u \in Exchanges :
            (unit[u].pc = "wait" /\ LastFailed(u)) =>
                unit[u].timer + unit[u].since <= Period(u))
    /\ [][\A u \in Exchanges :
            (unit[u].pc = "wait" /\ LastFailed(u) /\ unit[u].timer <= 0) =>
                (unit'[u].since = unit[u].since \/ unit'[u].pc = "fetching")]_vars

\* A failed cycle of the Binance unit, all three attempts answered 429, that
\* took longer than the interval.
C9_Witness ==
    /\ unit["Binance"].pc = "wait"
    /\ LastFailed("Binance")
    /\ unit["Binance"].interval_seconds = 1
    /\ unit["Binance"].since > Period("Binance")
    /\ unit["Binance"].timer < 0

\* C10: when a unit's task has panicked, main logs it, takes the task off the
\* JoinSet without spawning it again and stays in its join loop, the step
\* leaves every other unit as it was, main does not exit while a unit runs,
\* every panic is eventually logged, and any other unit waiting for its tick
\* goes on to fetch.
C10_PanicIsolated ==
    /\ [](main_pc = "exit" => \A u \in Exchanges : ~Running(u) /\ unit[u].pc # "start")
    /\ [][\A u \in Exchanges :
            /\ unit[u].pc \in {"panicked", "joined"} =>
                   unit'[u].pc \in {"panicked", "joined"}
            /\ (unit[u].pc = "panicked" /\ unit'[u].pc = "joined") =>
                   /\ main_log' = Append(main_log, [event |-> "panicked"])
                   /\ tasks' = tasks \ {u}
                   /\ main_pc' = "join"
                   /\ \A v \in Exchanges \ {u} : unit'[v] = unit[v] /\ log'[v] = log[v]]_vars
    /\ \A u \in Exchanges : (unit[u].pc = "panicked") ~> (unit[u].pc = "joined")
    /\ \A u \in Exchanges : \A v \in Exchanges \ {u} :
          (unit[u].pc \in {"panicked", "joined"} /\ unit[v].pc = "wait")
              ~> (unit[v].pc = "fetching")

C10_Witness ==
    /\ unit["Binance"].pc = "joined"
    /\ main_pc = "join"
    /\ tasks = {"OKX"}
    /\ main_log[Len(main_log)] = [event |-> "panicked"]
    /\ unit["OKX"].pc = "wait"
    /\ Len(log["OKX"]) >= 2

(***************************************************************************)
(* Claims about the units main starts.                                     *)
(***************************************************************************)
\* The number of tasks main has spawned for u: one "starting" record is
\* logged per spawn (main.rs:74-96).
SpawnCount(u) ==
    Cardinality({i \in DOMAIN main_log :
                    main_log[i].event = "starting" /\ main_log[i].exchange = u})

\* The task of u exists and has not ended.
UnitAlive(u) == unit[u].pc = "start" \/ Running(u)

\* C11: once main has walked all_monitors, exactly one unit is running for
\* each exchange that passes the allow-list, and none for any other.
C11_Original_OneUnitPerEnabledSource ==
    main_pc \in {"join", "exit"} =>
        \A u \in Exchanges :
            IF should_monitor_exchange(config, u)
            THEN SpawnCount(u) = 1 /\ UnitAlive(u)
            ELSE SpawnCount(u) = 0 /\ unit[u].pc = "none"

\* C38 as stated: for every interval the configuration accepts, 0 seconds
\* among them, the first step of a unit's run takes the unit into its loop, to
\* the wait for its first tick, and does not end the unit.
C38_Original_EveryIntervalEntersLoop ==
    [][\A u \in Exchanges :
          (unit[u].pc = "start" /\ unit'[u].pc # "start") => unit'[u].pc = "wait"]_vars

\* No exchange passes the allow-list.
NoneEnabled == \A u \in Exchanges : ~should_monitor_exchange(config, u)

\* C39: main has exited only when every unit it spawned has ended and been
\* joined, and the last record of its log then says that all monitors have
\* terminated; it does not exit while a unit runs, and it does exit once no
\* spawned unit is left.  When the allow-list matches no exchange, no unit is
\* ever spawned, and main exits before any time has passed, having logged its
\* skips and the final record only.
C39_SupervisorOutlivesUnits ==
    /\ [](main_pc = "exit" =>
            /\ \A u \in Exchanges : unit[u].pc \in {"none", "joined"}
            /\ tasks = {}
            /\ main_log[Len(main_log)] = [event |-> "all_terminated"])
    /\ [](main_pc # "exit" =>
            \A i \in DOMAIN main_log : main_log[i].event # "all_terminated")
    /\ [][(\E u \in Exchanges : UnitAlive(u)) => main_pc' # "exit"]_vars
    /\ (main_pc = "join" /\ \A u \in Exchanges : ~UnitAlive(u)) ~> (main_pc = "exit")
    /\ [](NoneEnabled =>
            /\ \A u \in Exchanges : unit[u].pc = "none" /\ SpawnCount(u) = 0
            /\ main_pc = "exit" =>
                  main_log = [i \in 1..Len(all_monitors) |->
                                 [event |-> "skipping", exchange |-> all_monitors[i]]]
                             \o <<[event |-> "all_terminated"]>>)
    /\ [][(NoneEnabled /\ main_pc # "exit") => Len(main_log') = Len(main_log) + 1]_vars
    /\ NoneEnabled ~> (main_pc = "exit")

\* Main has exited after the two units it spawned have ended.
C39_Witness ==
    /\ main_pc = "exit"
    /\ \A u \in Exchanges : SpawnCount(u) = 1 /\ unit[u].pc = "joined"

(***************************************************************************)
(* Claims about the proxy rotation.                                        *)
(***************************************************************************)
\* C12: among the calls of next_proxy_url, any port_count consecutive ones
\* return pairwise different ports, every returned port lies in
\* [start, end], and the first port_count calls return every port of the
\* range.
C12_RoundRobin ==
    PROXY_CONFIG.some =>
        LET N == port_count(PROXY_CONFIG)
            start == PROXY_CONFIG.port_range[1]
            end == PROXY_CONFIG.port_range[2]
        IN  /\ \A i \in DOMAIN rotation :
                  /\ rotation[i].port >= start
                  /\ rotation[i].port <= end
            /\ \A i \in DOMAIN rotation : \A j \in DOMAIN rotation :
                  (i < j /\ j - i < N) => rotation[i].port # rotation[j].port
            /\ Len(rotation) >= N =>
                  {rotation[i].port : i \in 1..N} = start..end

\* Four calls over a range of three ports and no system proxy: the fourth
\* returns the port of the first again.
C12_Witness ==
    /\ PROXY_CONFIG.some
    /\ PROXY_CONFIG.system_proxy = "unset"
    /\ port_count(PROXY_CONFIG) = 3
    /\ Len(rotation) = 4
    /\ rotation[4].port = rotation[1].port
    /\ \A t \in Callers : callers[t].pc = "idle"

\* C13: however the callers interleave, after K calls of next_proxy_url the
\* cursor stands at K, the K calls fetched K pairwise different cursor
\* values, and two callers inside next_proxy_url hold different values.
C13_NoLostUpdate ==
    /\ current_index = Len(rotation)
    /\ \A i \in DOMAIN rotation : \A j \in DOMAIN rotation :
          i # j => rotation[i].current # rotation[j].current
    /\ \A s \in Callers : \A t \in Callers :
          (s # t /\ callers[s].pc = "fetched" /\ callers[t].pc = "fetched")
              => callers[s].current # callers[t].current

\* Both callers are inside next_proxy_url at once, after an earlier call.
C13_Witness ==
    /\ \A t \in Callers : callers[t].pc = "fetched"
    /\ Len(rotation) >= 3
    /\ rotation[Len(rotation)].caller # rotation[Len(rotation) - 1].caller

\* C14: whenever SYSTEM_PROXY is set, every client built by
\* create_browser_client or create_new_proxy_client is bound to the system
\* proxy, and neither constructor comes to the fetch_add of the cursor.
C14_Original_SystemProxyPrecedence ==
    proxy_env.SYSTEM_PROXY # "unset" =>
        \A t \in Callers :
            callers[t].fn \in {"browser", "new"} =>
                /\ callers[t].pc = "idle"
                /\ callers[t].result.bound = "system"

\* C15: a port got from random_proxy_url, directly or through
\* create_new_proxy_client, lies in [start, end]; a step of either leaves the
\* cursor as it was; the cursor changes only in the fetch_add of
\* next_proxy_url, by one, and so never decreases.
C15_RandomLeavesCursor ==
    /\ [](\A t \in Callers :
            (callers[t].fn \in {"random", "new"} /\ callers[t].result.bound = "port") =>
                /\ callers[t].result.port >= PROXY_CONFIG.port_range[1]
                /\ callers[t].result.port <= PROXY_CONFIG.port_range[2])
    /\ [][/\ (\E t \in Callers : callers'[t] # callers[t]
                                   /\ callers'[t].fn \in {"random", "new"})
                => current_index' = current_index
          /\ current_index' # current_index =>
                /\ current_index' = current_index + 1
                /\ \E t \in Callers : /\ callers[t].pc = "idle"
                                      /\ callers'[t].pc = "fetched"
                                      /\ callers'[t].current = current_index]_vars

\* create_new_proxy_client has bound the last port of the range while the
\* cursor, advanced by earlier calls of next_proxy_url, stayed where it was.
C15_Witness ==
    /\ PROXY_CONFIG.some
    /\ callers["t1"].fn = "new"
    /\ callers["t1"].result = [bound |-> "port", port |-> PROXY_CONFIG.port_range[2]]
    /\ callers["t2"].fn = "random"
    /\ callers["t2"].result.bound = "port"
    /\ current_index = 2
    /\ proxy_calls = 4

(***************************************************************************)
(* Claims about extract_response_data.                                     *)
(***************************************************************************)
\* The call has ended, by a return or by a panic.
ExtractOver == xr.pc \in {"done", "panic"}

\* C16: for a response whose Content-Type declares JSON and whose body, once
\* read, matches the target type, the call returns the structured decode and
\* the registered extractor is never invoked.
C16_StructuredDecodeWins ==
    (DeclaresMediaType(xr.content_type, "application/json")
        /\ xr.text_ok /\ xr.matches_schema)
      => /\ xr.fallback_calls = 0
         /\ xr.pc \notin {"fallback", "excerpt", "panic"}
         /\ xr.pc = "done" => xr.outcome = [kind |-> "structured", value |-> "data"]

C16_Witness ==
    /\ xr.pc = "done"
    /\ xr.content_type = <<"application/json", "charset=utf-8">>
    /\ xr.matches_schema
    /\ xr.html_extractor = "items"
    /\ xr.outcome.kind = "structured"
    /\ xr.fallback_calls = 0

\* The structured decode is inapplicable (the Content-Type declares HTML) or
\* fails (it declares JSON and the body does not match the target type).
DecodeInapplicableOrFails ==
    \/ DeclaresMediaType(xr.content_type, "text/html")
    \/ DeclaresMediaType(xr.content_type, "application/json") /\ ~xr.matches_schema

\* C17: for a response whose Content-Type declares HTML, or declares JSON
\* with a body that does not match, a registered extractor is invoked exactly
\* once, on the body as read, and its answer is what the call returns.
C17_Original_FallbackInvokedOnce ==
    (xr.pc = "done" /\ xr.text_ok /\ xr.html_extractor # "none"
        /\ DecodeInapplicableOrFails)
      => /\ xr.fallback_calls = 1
         /\ xr.fallback_arg = <<xr.body>>
         /\ xr.outcome = [kind |-> "fallback", value |-> xr.html_extractor]

\* C18: with no extractor registered and the structured decode skipped as
\* inapplicable or failing, the call ends by returning the decode error,
\* having logged an excerpt of at most 200 characters of the body, whatever
\* the body.
C18_Original_ErrorWithExcerpt ==
    (ExtractOver /\ xr.text_ok /\ xr.html_extractor = "none"
        /\ ~json_result(xr).ok)
      => /\ xr.pc = "done"
         /\ xr.outcome.kind = "error"
         /\ xr.outcome.value = json_result(xr).error
         /\ Len(xr.logged) = 1
         /\ xr.logged[1].chars <= EXCERPT_BYTES

\* C19: a call that is over has produced exactly one of a structured result,
\* a fallback result and an error; the extractor was invoked only for a
\* fallback result, and then once.
C19_Original_ExactlyOneOutcome ==
    ExtractOver =>
        /\ xr.outcome.kind \in {"structured", "fallback", "error"}
        /\ xr.outcome.kind = "structured" => xr.fallback_calls = 0
        /\ xr.outcome.kind = "fallback" => xr.fallback_calls = 1
        /\ xr.outcome.kind = "error" => xr.fallback_calls = 0

(***************************************************************************)
(* Claims about the classifier.                                            *)
(***************************************************************************)
\* Two characters that are the same letter in either case, or the same
\* character.
SameIgnoringCase(a, b) ==
    \/ a = b
    \/ \E i \in DOMAIN UpperLetters :
          {a, b} = {UpperLetters[i], LowerLetters[i]}

\* The text contains the keyword in some mix of cases.
ContainsIgnoringCase(s, keyword) ==
    \E i \in 0..(Len(s) - Len(keyword)) :
        \A k \in 1..Len(keyword) : SameIgnoringCase(s[i + k], keyword[k])

MentionsKeyword(s) ==
    \E k \in DOMAIN listing_keywords : ContainsIgnoringCase(s, listing_keywords[k])

\* C20: once analysed, an announcement whose title or content contains a
\* keyword in any mix of cases is a listing, and the announcement
\* "New Listing: Foobar (FOO)" with no content is a listing with the symbols
\* ["FOO"].
C20_KeywordMakesListing ==
    ann.calls >= 1 =>
        /\ (MentionsKeyword(ann.title) \/ MentionsKeyword(ann.content))
              => ann.is_new_listing
        /\ (ann.title = NewListingFoobar \o ParenFOO /\ ann.content = <<>>)
              => /\ ann.is_new_listing
                 /\ ann.token_symbols = <<<<"F", "O", "O">>>>

\* The example of the claim, analysed once.
C20_Witness ==
    /\ ann.calls = 1
    /\ ann.title = NewListingFoobar \o ParenFOO
    /\ ann.content = <<>>
    /\ ann.is_new_listing
    /\ ann.token_symbols = <<<<"F", "O", "O">>>>

\* The symbols BTC and ETH as token_symbols holds them.
BTC == <<"B", "T", "C">>

ETH == <<"E", "T", "H">>

\* "[BTC] trading pair added" and "Also supports (ETH) and (BTC)".
IsTradingPairExample(a) ==
    /\ a.title = SquareBTC \o TradingPairAdded
    /\ a.content = AlsoSupports \o ParenETH \o AndText \o ParenBTC

\* C21 as stated: analysing "[BTC] trading pair added" with the content
\* "Also supports (ETH) and (BTC)" yields the symbols ["BTC", "ETH"].
C21_Original_ExampleSymbols ==
    (ann.calls >= 1 /\ IsTradingPairExample(ann)) => ann.token_symbols = <<BTC, ETH>>

\* C21: analysing "[BTC] trading pair added" with the content "Also supports
\* (ETH) and (BTC)" finds no keyword ("trading pairs" is one, "trading pair"
\* is not): the announcement is not a listing and has no symbols.  With the
\* title "[BTC] trading pairs added" and the same content it is a listing
\* with the symbols ["BTC", "ETH"], in that order and without a duplicate.
C21_ExampleSymbols ==
    ann.calls >= 1 =>
        /\ IsTradingPairExample(ann)
              => ~ann.is_new_listing /\ ann.token_symbols = <<>>
        /\ (/\ ann.title = SquareBTC \o TradingPairsAdded
            /\ ann.content = AlsoSupports \o ParenETH \o AndText \o ParenBTC)
              => ann.is_new_listing /\ ann.token_symbols = <<BTC, ETH>>

\* The example of the claim, analysed once.
C21_Witness ==
    /\ ann.calls = 1
    /\ IsTradingPairExample(ann)
    /\ ~ann.is_new_listing
    /\ ann.token_symbols = <<>>

\* The sequence without the later occurrences of its elements.
RECURSIVE FirstSeen(_)
FirstSeen(s) ==
    IF s = <<>> THEN <<>>
    ELSE LET front == FirstSeen(SubSeq(s, 1, Len(s) - 1))
             last == s[Len(s)]
         IN  IF \E i \in DOMAIN front : front[i] = last THEN front
             ELSE Append(front, last)

NoDuplicate(s) == \A i, j \in DOMAIN s : s[i] = s[j] => i = j

\* The bracketed tokens of the title, then those of the content, uppercased.
BracketedTokens(a) ==
    LET caps == Captures(a.title, 1) \o Captures(a.content, 1)
    IN  [i \in DOMAIN caps |-> to_uppercase(caps[i])]

\* C22 as stated: the symbols of a listing are the uppercased bracketed
\* tokens of the title followed by those of the content, each at its first
\* occurrence only, so no symbol occurs twice.
C22_Original_FirstSeenNoDuplicate ==
    (ann.calls >= 1 /\ ann.is_new_listing) =>
        /\ ann.token_symbols = FirstSeen(BracketedTokens(ann))
        /\ NoDuplicate(ann.token_symbols)

\* C23: an analysed announcement whose title and content contain no keyword,
\* in any mix of cases, is not a listing and has no symbols, bracketed
\* tokens or not; so for "Scheduled maintenance" with the content "downtime
\* expected".
C23_NoKeywordNoSymbols ==
    ann.calls >= 1 =>
        /\ (~MentionsKeyword(ann.title) /\ ~MentionsKeyword(ann.content))
              => ~ann.is_new_listing /\ ann.token_symbols = <<>>
        /\ (ann.title = ScheduledMaintenance /\ ann.content = DowntimeExpected)
              => ~ann.is_new_listing /\ ann.token_symbols = <<>>

\* An analysed announcement without a keyword and with bracketed tokens in
\* title and content.
C23_Witness ==
    /\ ann.calls >= 1
    /\ ~MentionsKeyword(ann.title)
    /\ ~MentionsKeyword(ann.content)
    /\ Captures(ann.title, 1) # <<>>
    /\ Captures(ann.content, 1) # <<>>
    /\ ~ann.is_new_listing
    /\ ann.token_symbols = <<>>

\* The result an announcement's title and content determine.
ClassifierResult(title, content) ==
    LET once == Analyzed(NewAnnouncement(title, content))
    IN  <<once.is_new_listing, once.token_symbols>>

\* C24: a second analysis of an announcement leaves is_new_listing and
\* token_symbols as the first left them, and the result of an analysed
\* announcement is the one its title and content determine, so two
\* announcements of equal title and content have equal results.
C24_Idempotent ==
    /\ [][ann.calls >= 1 =>
            /\ ann'.is_new_listing = ann.is_new_listing
            /\ ann'.token_symbols = ann.token_symbols]_vars
    /\ [](ann.calls >= 1 =>
            <<ann.is_new_listing, ann.token_symbols>>
                = ClassifierResult(ann.title, ann.content))

\* A listing with symbols, analysed twice.
C24_Witness ==
    /\ ann.calls = 2
    /\ ann.is_new_listing
    /\ Len(ann.token_symbols) >= 2

\* A letter or a digit.
IsAlphanumeric(c) ==
    \/ c \in Range(UpperLetters)
    \/ c \in Range(LowerLetters)
    \/ c \in Digits
    \/ c \in CjkChars

\* The tokens of 2 to 10 letters and digits that stand in the text between
\* "(" and ")" or between "[" and "]".
EnclosedTokens(text) ==
    {SubSeq(text, i + 1, i + n) : <<i, n>> \in
        {p \in (1..Len(text)) \X (SYMBOL_MIN..SYMBOL_MAX) :
            /\ p[1] + p[2] + 1 <= Len(text)
            /\ <<text[p[1]], text[p[1] + p[2] + 1]>> \in {<<"(", ")">>, <<"[", "]">>}
            /\ \A k \in (p[1] + 1)..(p[1] + p[2]) : IsAlphanumeric(text[k])}}

\* C36 as stated: every symbol of an analysed announcement is the uppercase
\* form of a token of 2 to 10 letters and digits that its title or its
\* content holds between a pair of parentheses or a pair of square brackets.
C36_Original_SymbolsAreEnclosedTokens ==
    ann.calls >= 1 =>
        \A i \in DOMAIN ann.token_symbols :
            \E token \in EnclosedTokens(ann.title) \cup EnclosedTokens(ann.content) :
                ann.token_symbols[i] = to_uppercase(token)

(***************************************************************************)
(* Claims about the adapters, checked under SpecAdapter.                   *)
(***************************************************************************)
\* fetch_announcements has returned a batch.
BatchReturned == ad.pc = "returned" /\ ad.result.kind = "ok"

\* The symbols the extraction finds in a title and a content.
ExtractedSymbols(title, content) ==
    FirstSeen(BracketedTokens([title |-> title, content |-> content]))

\* The item's categories name a listing and the keywords of the classifier
\* found none in the text of its announcement.
OverrideApplies(a) ==
    /\ ad.adapter = "Coinbase"
    /\ ad.items[a.item].category
    /\ ~IsListing(a.title, a.content)

\* C25 as stated: in a batch returned by the Coinbase adapter, an announcement
\* whose item the categories flag as a listing and the keywords do not is a
\* listing, and its symbols are those extracted from its title and content.
C25_Original_CategoryOverride ==
    BatchReturned =>
        \A k \in DOMAIN ad.announcements :
            LET a == ad.announcements[k] IN
            OverrideApplies(a) =>
                /\ a.is_new_listing
                /\ a.token_symbols = ExtractedSymbols(a.title, a.content)

\* C26 as stated: in a batch returned by any adapter, every announcement
\* outside the Coinbase override carries the classifier's result for its
\* title and content.
C26_Original_EveryAnnouncementClassified ==
    BatchReturned =>
        \A k \in DOMAIN ad.announcements :
            LET a == ad.announcements[k] IN
            ~OverrideApplies(a) =>
                <<a.is_new_listing, a.token_symbols>>
                    = ClassifierResult(a.title, a.content)

\* What retry_request retries: a transport failure, a 429 or a 403.
IsRetryableFailure(outcome) ==
    \/ outcome.kind = "transport"
    \/ outcome.kind = "response" /\ IsRetryableStatus(outcome.status)

\* C27 as stated: for every adapter, when fetch_announcements returns an error
\* and the last answer to its feed request was a transport failure, a 429 or
\* a 403, the feed request had been made as often as the bound of
\* retry_request allows; one such failure alone does not fail the call.
C27_Original_RetriedBeforeSurfacing ==
    (/\ ad.pc = "returned"
     /\ ad.result.kind = "err"
     /\ IsRetryableFailure(ad.feed.last))
        => ad.feed.calls = FEED_MAX_RETRIES

\* C28 as stated: an item whose content the adapter requested in vain has its
\* announcement in the batch, with an empty content and the classifier's
\* result for its title alone, and the call goes on.
C28_Original_ItemKeptWithEmptyContent ==
    \A i \in DOMAIN ad.items :
        ad.items[i].detail = DetailFailed =>
            /\ ad.pc \in {"items", "returned"}
            /\ ad.pc = "returned" => ad.result.kind = "ok"
            /\ \E k \in DOMAIN ad.announcements :
                  LET a == ad.announcements[k] IN
                  /\ a.item = i
                  /\ a.title = ad.items[i].title
                  /\ a.content = <<>>
                  /\ <<a.is_new_listing, a.token_symbols>>
                        = ClassifierResult(a.title, <<>>)

\* C29: when the decoded feed says the remote API did not succeed, the next
\* step of the adapter returns an error, without a request and with
\* retry_request left alone; the call then has made no request but those for
\* the feed, slept only between them, and processed no item.
C29_SemanticErrorNotRetried ==
    /\ [][(ad.pc = "check" /\ ChecksIndicator(ad.adapter) /\ ~ad.body.success) =>
            /\ ad'.pc = "returned"
            /\ ad'.result = Failed("indicator")
            /\ ad'.requests = ad.requests
            /\ rr' = rr]_vars
    /\ [](ad.result = Failed("indicator") =>
            /\ ad.pc = "returned"
            /\ rr.pc = "idle"
            /\ ad.requests = ad.feed.calls
            /\ ad.feed.sleeps = ad.feed.calls - 1
            /\ ad.items = <<>>)

\* The Binance feed answered at the second attempt, with a body that says the
\* API did not succeed.
C29_Witness ==
    /\ ad.adapter = "Binance"
    /\ ad.result = Failed("indicator")
    /\ ad.feed.calls = 2
    /\ ad.feed.sleeps = 1

\* C31 as stated: in the batch one call of fetch_announcements returns, no
\* two announcements have the same id, whether the feed supplied the id or the
\* adapter made it from the link or from the clock.
C31_Original_IdsPairwiseDistinct ==
    BatchReturned =>
        \A j, k \in DOMAIN ad.announcements :
            j # k => ad.announcements[j].id # ad.announcements[k].id

\* C35 as stated: in an adapter that hands its feed request to retry_request,
\* no two attempts of one call are sent through the same client, and so none
\* through the client and the proxy of an attempt that failed before it.
C35_Original_FreshClientPerAttempt ==
    RetriesFeed(ad.adapter) =>
        \A j, k \in DOMAIN ad.feed.clients :
            j # k => ad.feed.clients[j] # ad.feed.clients[k]

\* C37: an announcement of the batch of any adapter that is not a listing has
\* no symbols, while the batch is built and when it is returned; so for an
\* announcement of Coinbase that was analysed a second time because of its
\* categories.
C37_NotListingNoSymbols ==
    \A k \in DOMAIN ad.announcements :
        ~ad.announcements[k].is_new_listing => ad.announcements[k].token_symbols = <<>>

\* Coinbase has returned a batch with an announcement whose categories name a
\* listing, whose title holds a bracketed token and no keyword, and which is
\* not a listing.
C37_Witness ==
    /\ BatchReturned
    /\ ad.adapter = "Coinbase"
    /\ \E k \in DOMAIN ad.announcements :
          LET a == ad.announcements[k] IN
          /\ OverrideApplies(a)
          /\ Captures(a.title, 1) # <<>>
          /\ ~a.is_new_listing
          /\ a.token_symbols = <<>>

(***************************************************************************)
(* Claims about the records of run, checked under SpecRun.                 *)
(***************************************************************************)
\* The kinds of record run writes about the result of a fetch.
ResultKinds == {"retrieved", "new_listing", "failed"}

DocumentedName(u) == IF u = "Binance" THEN "binance" ELSE "okx"

\* C33 as stated: the unit of an exchange whose interval the command line
\* gives in the documented form polls at that interval, and the unit of an
\* exchange without one at the default interval.
C33_Original_OverrideInDocumentedForm ==
    \A u \in Exchanges :
        unit[u].pc # "none" =>
            unit[u].interval_seconds =
                IF DocumentedName(u) \in DOMAIN config.exchange_intervals
                THEN config.exchange_intervals[DocumentedName(u)]
                ELSE IF u \in DOMAIN config.exchange_intervals
                THEN config.exchange_intervals[u]
                ELSE config.default_polling_interval

(***************************************************************************)
(* Claims about the timeout of the requests, checked under                 *)
(* FairSpecTimeouts.                                                       *)
(***************************************************************************)
\* C30 as stated: every request of every unit ends, so a unit that is fetching
\* is later back at the wait for its tick, whatever the servers do.
C30_Original_FetchingReturnsToWait ==
    \A u \in Exchanges : (unit[u].pc = "fetching") ~> (unit[u].pc = "wait")

====
